---------------------------- MODULE Spec2Model ----------------------------
(***************************************************************************)
(* A model of the digest programs of the repository: the streaming MD5 and *)
(* SHA-1 drivers (src/src/Md5.cpp, src/src/Sha1.cpp), the one-shot md5 and *)
(* sha1 programs (src/Md5.cpp, src/Sha1.cpp), the line-by-line sha256      *)
(* driver (src/Sha256.cpp), the SHA-384 program (src/src/Sha384.cpp) and   *)
(* the helpers of src/sha.h.  reportProgress, which the mains call and no  *)
(* source file defines, is an observer that records its arguments.         *)
(*                                                                         *)
(* Representation.  TLC's integers are too narrow for a uint32_t, so a     *)
(* machine word is the sequence of its hexadecimal digits, most            *)
(* significant first: 8 digits for uint32_t, 16 for uint64_t.  All word    *)
(* arithmetic is modulo 2^32 resp. 2^64, as in the C++.  A byte is an      *)
(* integer in 0..255, a bit of a vector<bool> or bitset is 0 or 1, and the *)
(* digest written to cout is a sequence of one-character strings (the      *)
(* newline after it is not recorded).  MD5 prints the bytes of its state   *)
(* words in memory order: the model is of a little-endian host.            *)
(***************************************************************************)
EXTENDS Integers, Sequences, FiniteSets, TLC

(***************************************************************************)
(* Bounds of the model.                                                    *)
(***************************************************************************)
\* Input messages of every length 0..MaxLen are hashed by the drivers.
MaxLen == 66
\* Messages of every length 0..PadMaxLen are padded by the one-shot padders.
PadMaxLen == 256
\* Messages of every length 0..Sha384MaxLen are hashed by the SHA-384 program.
Sha384MaxLen == 24

(***************************************************************************)
(* for (j = lo; j <= hi; ++j) v = Body(j, v), as the value of v after the  *)
(* loop.  The range is split in halves, and the tests v = v make TLC       *)
(* compute the value a half starts from before it enters that half, which  *)
(* keeps the depth of the evaluation logarithmic in the number of rounds.  *)
(***************************************************************************)
RECURSIVE Loop(_, _, _, _)
Loop(Body(_, _), lo, hi, v) ==
  IF v = v /\ lo = hi THEN Body(lo, v)
  ELSE IF lo > hi THEN v
  ELSE LET mid == (lo + hi) \div 2
       IN  Loop(Body, mid + 1, hi, Loop(Body, lo, mid, v))

(***************************************************************************)
(* Machine words as digit sequences.                                       *)
(***************************************************************************)
Pow2(n) == 2 ^ n

\* The bits of one hexadecimal digit, most significant first.
NibBits(n) == <<(n \div 8) % 2, (n \div 4) % 2, (n \div 2) % 2, n % 2>>

NibAnd == [a \in 0..15 |-> [b \in 0..15 |->
             LET x == NibBits(a) y == NibBits(b)
             IN  8 * (x[1] * y[1]) + 4 * (x[2] * y[2]) + 2 * (x[3] * y[3]) + x[4] * y[4]]]

NibXor == [a \in 0..15 |-> [b \in 0..15 |->
             LET x == NibBits(a) y == NibBits(b)
             IN  8 * ((x[1] + y[1]) % 2) + 4 * ((x[2] + y[2]) % 2)
                   + 2 * ((x[3] + y[3]) % 2) + ((x[4] + y[4]) % 2)]]

\* x & y, x | y, x ^ y, ~x on words of equal width.
\* (Tup makes the sequence explicit, so that its digits are computed once.)
Tup(f) == f \o <<>>
And(x, y) == Tup([i \in 1..Len(x) |-> NibAnd[x[i]][y[i]]])
Xor(x, y) == Tup([i \in 1..Len(x) |-> NibXor[x[i]][y[i]]])
Or(x, y)  == Tup([i \in 1..Len(x) |-> x[i] + y[i] - NibAnd[x[i]][y[i]]])
Not(x)    == Tup([i \in 1..Len(x) |-> 15 - x[i]])

\* x + y with wrap-around at the word width (unsigned overflow is defined):
\* added four digits at a time, from the least significant group g up.
Val4(x, i) == 4096 * x[i] + 256 * x[i + 1] + 16 * x[i + 2] + x[i + 3]
Dig4(v) == <<(v \div 4096) % 16, (v \div 256) % 16, (v \div 16) % 16, v % 16>>

RECURSIVE AddGroups(_, _, _, _)
AddGroups(x, y, g, carry) ==
  IF g = 0 THEN <<>>
  ELSE LET s == Val4(x, 4 * g - 3) + Val4(y, 4 * g - 3) + carry
       IN  AddGroups(x, y, g - 1, s \div 65536) \o Dig4(s % 65536)

Add(x, y) == AddGroups(x, y, Len(x) \div 4, 0)

\* x << c and x >> c (logical) for 0 <= c < width; bits shifted out are lost.
Shl(x, c) ==
  LET n == Len(x) q == c \div 4 r == c % 4
      D(i) == IF i <= n THEN x[i] ELSE 0
  IN  Tup([i \in 1..n |-> ((D(i + q) * Pow2(r)) % 16) + (D(i + q + 1) \div Pow2(4 - r))])

Shr(x, c) ==
  LET n == Len(x) q == c \div 4 r == c % 4
      D(i) == IF i >= 1 THEN x[i] ELSE 0
  IN  Tup([i \in 1..n |-> ((D(i - q - 1) * Pow2(4 - r)) % 16) + (D(i - q) \div Pow2(r))])

\* The word of the given number of digits whose value is the small integer v.
RECURSIVE WordOf(_, _)
WordOf(v, digits) ==
  IF digits = 0 THEN <<>> ELSE Append(WordOf(v \div 16, digits - 1), v % 16)

\* A byte as its two hexadecimal digits, and back.
ByteDigits(b) == <<b \div 16, b % 16>>
DigitsByte(w, i) == 16 * w[i] + w[i + 1]

\* The bytes of a word, most significant first.
WordBytes(w) == Tup([i \in 1..(Len(w) \div 2) |-> DigitsByte(w, 2 * i - 1)])

(***************************************************************************)
(* MD5: src/src/Md5.cpp (streaming driver) and src/Md5.cpp (one-shot).     *)
(***************************************************************************)
\* Rotation amounts of the one-shot md5 (src/Md5.cpp).
S ==
  <<7, 12, 17, 22, 7, 12, 17, 22, 7, 12, 17, 22, 7, 12, 17, 22,
    5, 9, 14, 20, 5, 9, 14, 20, 5, 9, 14, 20, 5, 9, 14, 20,
    4, 11, 16, 23, 4, 11, 16, 23, 4, 11, 16, 23, 4, 11, 16, 23,
    6, 10, 15, 21, 6, 10, 15, 21, 6, 10, 15, 21, 6, 10, 15, 21>>

\* Round constants of the streaming driver (src/src/Md5.cpp).
K ==
  <<
    <<13,7,6,10,10,4,7,8>>, <<14,8,12,7,11,7,5,6>>, <<2,4,2,0,7,0,13,11>>, <<12,1,11,13,12,14,14,14>>,
    <<15,5,7,12,0,15,10,15>>, <<4,7,8,7,12,6,2,10>>, <<10,8,3,0,4,6,1,3>>, <<15,13,4,6,9,5,0,1>>,
    <<6,9,8,0,9,8,13,8>>, <<8,11,4,4,15,7,10,15>>, <<15,15,15,15,5,11,11,1>>, <<8,9,5,12,13,7,11,14>>,
    <<6,11,9,0,1,1,2,2>>, <<15,13,9,8,7,1,9,3>>, <<10,6,7,9,4,3,8,14>>, <<4,9,11,4,0,8,2,1>>,
    <<15,6,1,14,2,5,6,2>>, <<12,0,4,0,11,3,4,0>>, <<2,6,5,14,5,10,5,1>>, <<14,9,11,6,12,7,10,10>>,
    <<13,6,2,15,1,0,5,13>>, <<0,2,4,4,1,4,5,3>>, <<13,8,10,1,14,6,8,1>>, <<14,7,13,3,15,11,12,8>>,
    <<2,1,14,1,12,13,14,6>>, <<12,3,3,7,0,7,13,6>>, <<15,4,13,5,0,13,8,7>>, <<4,5,5,10,1,4,14,13>>,
    <<10,9,14,3,14,9,0,5>>, <<15,12,14,15,10,3,15,8>>, <<6,7,6,15,0,2,13,9>>, <<8,13,2,10,4,12,8,10>>,
    <<15,15,15,10,3,9,4,2>>, <<8,7,7,1,15,6,8,1>>, <<6,13,9,13,6,1,2,2>>, <<15,13,14,5,3,8,0,12>>,
    <<10,4,11,14,14,10,4,4>>, <<4,11,13,14,12,15,10,9>>, <<15,6,11,11,4,11,6,0>>, <<11,14,11,15,11,12,7,0>>,
    <<2,8,9,11,7,14,12,6>>, <<14,10,10,1,2,7,15,10>>, <<13,4,14,15,3,0,8,5>>, <<0,4,8,8,1,13,0,5>>,
    <<13,9,13,4,13,0,3,9>>, <<14,6,13,11,9,9,14,5>>, <<1,15,10,2,7,12,15,8>>, <<12,4,10,12,5,6,6,5>>,
    <<15,4,2,9,2,2,4,4>>, <<4,3,2,10,15,15,9,7>>, <<10,11,9,4,2,3,10,7>>, <<15,12,9,3,10,0,3,9>>,
    <<6,5,5,11,5,9,12,3>>, <<8,15,0,12,12,12,9,2>>, <<15,15,14,15,15,4,7,13>>, <<8,5,8,4,5,13,13,1>>,
    <<6,15,10,8,7,14,4,15>>, <<15,14,2,12,14,6,14,0>>, <<10,3,0,1,4,3,1,4>>, <<4,14,0,8,1,1,10,1>>,
    <<15,7,5,3,7,14,8,2>>, <<11,13,3,10,15,2,3,5>>, <<2,10,13,7,13,2,11,11>>, <<14,11,8,6,13,3,9,1>>
  >>

\* Round constants of the one-shot md5 (src/Md5.cpp).
Kmd5 ==
  <<
    <<13,7,6,10,10,4,7,8>>, <<14,8,12,7,11,7,5,6>>, <<2,4,2,0,7,0,13,11>>, <<12,1,11,13,12,14,14,14>>,
    <<15,5,7,12,0,15,10,15>>, <<4,7,8,7,12,6,2,10>>, <<10,8,3,0,4,6,1,3>>, <<15,13,4,6,9,5,0,1>>,
    <<6,9,8,0,9,8,13,8>>, <<8,11,4,4,15,7,10,15>>, <<15,15,15,15,5,11,11,1>>, <<8,9,5,12,13,7,11,14>>,
    <<6,11,9,0,1,1,2,2>>, <<15,13,9,8,7,1,9,3>>, <<10,6,7,9,4,3,8,14>>, <<4,9,11,4,0,8,2,1>>,
    <<15,6,1,14,2,5,6,2>>, <<12,0,4,0,11,3,4,0>>, <<2,6,5,14,5,10,5,1>>, <<14,9,11,6,12,7,10,10>>,
    <<13,6,2,15,1,0,5,13>>, <<0,2,4,4,1,4,5,3>>, <<13,8,10,1,14,6,8,1>>, <<14,7,13,3,15,11,12,8>>,
    <<2,1,14,1,12,13,14,6>>, <<12,3,3,7,0,7,13,6>>, <<15,4,13,5,0,13,8,7>>, <<4,5,5,10,1,4,14,13>>,
    <<10,9,14,3,14,9,0,5>>, <<15,12,14,15,10,3,15,8>>, <<6,7,6,15,0,2,13,9>>, <<8,13,2,10,4,12,8,10>>,
    <<15,15,15,10,3,9,4,2>>, <<8,7,7,1,15,6,8,1>>, <<6,13,9,13,6,1,2,2>>, <<15,13,14,5,3,8,0,12>>,
    <<10,4,11,14,14,10,4,4>>, <<4,11,13,14,12,15,10,9>>, <<15,6,11,11,4,11,6,0>>, <<11,14,11,15,11,12,7,0>>,
    <<2,8,9,11,7,14,12,6>>, <<14,10,10,1,2,7,15,10>>, <<13,4,14,15,3,0,8,5>>, <<0,4,8,8,1,13,0,5>>,
    <<13,9,13,4,13,0,3,9>>, <<14,6,13,11,9,9,14,5>>, <<1,15,10,2,7,12,15,8>>, <<12,4,10,12,5,6,6,5>>,
    <<15,4,2,9,2,2,4,4>>, <<4,3,2,10,15,15,9,7>>, <<10,11,9,4,2,3,10,7>>, <<15,12,9,3,10,0,3,9>>,
    <<6,5,5,11,5,9,12,3>>, <<8,15,0,12,12,12,9,2>>, <<15,15,14,15,15,4,7,13>>, <<8,5,8,4,5,13,13,1>>,
    <<6,15,10,8,7,14,4,15>>, <<15,14,2,12,14,6,14,0>>, <<10,3,0,1,4,3,1,4>>, <<4,14,0,8,1,1,10,1>>,
    <<15,7,5,3,7,14,8,2>>, <<11,13,3,10,15,2,3,5>>, <<2,10,13,7,13,2,11,11>>, <<14,11,8,6,13,3,9,1>>
  >>

\* (x << c) | (x >> (32 - c))
leftRotate(x, c) == Or(Shl(x, c), Shr(x, 32 - c))

F(x, y, z) == Or(And(x, y), And(Not(x), z))
G(x, y, z) == Or(And(x, z), And(y, Not(z)))
H(x, y, z) == Xor(Xor(x, y), z)
I(x, y, z) == Xor(y, Or(x, Not(z)))

\* The initial MD5 state a0, b0, c0, d0.
Md5Init ==
  << <<6,7,4,5,2,3,0,1>>, <<14,15,12,13,10,11,8,9>>,
     <<9,8,11,10,13,12,15,14>>, <<1,0,3,2,5,4,7,6>> >>

\* M[j] = block[4j] | block[4j+1] << 8 | block[4j+2] << 16 | block[4j+3] << 24
\* for the 64 bytes of buf after offset off (M is indexed from 1 here).  A
\* byte >= 128 shifted by 24 leaves the range of int; every build wraps it
\* and the conversion to uint32_t yields the little-endian word.
DecodeLE(buf, off) ==
  Tup([j \in 1..16 |->
         ByteDigits(buf[off + 4 * j]) \o ByteDigits(buf[off + 4 * j - 1])
           \o ByteDigits(buf[off + 4 * j - 2]) \o ByteDigits(buf[off + 4 * j - 3])])

\* The 64 invocations STEPn(f, a, b, c, d, k, s, i) of transform, in order,
\* each as <<n, a, b, c, d, k, s, i>>.  STEP1 has no i: it uses K[k].
Steps ==
  <<
    <<1, "A", "B", "C", "D", 0, 7, 0>>, <<1, "D", "A", "B", "C", 1, 12, 1>>,
    <<1, "C", "D", "A", "B", 2, 17, 2>>, <<1, "B", "C", "D", "A", 3, 22, 3>>,
    <<1, "A", "B", "C", "D", 4, 7, 4>>, <<1, "D", "A", "B", "C", 5, 12, 5>>,
    <<1, "C", "D", "A", "B", 6, 17, 6>>, <<1, "B", "C", "D", "A", 7, 22, 7>>,
    <<1, "A", "B", "C", "D", 8, 7, 8>>, <<1, "D", "A", "B", "C", 9, 12, 9>>,
    <<1, "C", "D", "A", "B", 10, 17, 10>>, <<1, "B", "C", "D", "A", 11, 22, 11>>,
    <<1, "A", "B", "C", "D", 12, 7, 12>>, <<1, "D", "A", "B", "C", 13, 12, 13>>,
    <<1, "C", "D", "A", "B", 14, 17, 14>>, <<1, "B", "C", "D", "A", 15, 22, 15>>,
    <<2, "A", "B", "C", "D", 1, 5, 16>>, <<2, "D", "A", "B", "C", 6, 9, 17>>,
    <<2, "C", "D", "A", "B", 11, 14, 18>>, <<2, "B", "C", "D", "A", 0, 20, 19>>,
    <<2, "A", "B", "C", "D", 5, 5, 20>>, <<2, "D", "A", "B", "C", 10, 9, 21>>,
    <<2, "C", "D", "A", "B", 15, 14, 22>>, <<2, "B", "C", "D", "A", 4, 20, 23>>,
    <<2, "A", "B", "C", "D", 9, 5, 24>>, <<2, "D", "A", "B", "C", 14, 9, 25>>,
    <<2, "C", "D", "A", "B", 3, 14, 26>>, <<2, "B", "C", "D", "A", 8, 20, 27>>,
    <<2, "A", "B", "C", "D", 13, 5, 28>>, <<2, "D", "A", "B", "C", 2, 9, 29>>,
    <<2, "C", "D", "A", "B", 7, 14, 30>>, <<2, "B", "C", "D", "A", 12, 20, 31>>,
    <<3, "A", "B", "C", "D", 5, 4, 32>>, <<3, "D", "A", "B", "C", 8, 11, 33>>,
    <<3, "C", "D", "A", "B", 11, 16, 34>>, <<3, "B", "C", "D", "A", 14, 23, 35>>,
    <<3, "A", "B", "C", "D", 1, 4, 36>>, <<3, "D", "A", "B", "C", 4, 11, 37>>,
    <<3, "C", "D", "A", "B", 7, 16, 38>>, <<3, "B", "C", "D", "A", 10, 23, 39>>,
    <<3, "A", "B", "C", "D", 13, 4, 40>>, <<3, "D", "A", "B", "C", 0, 11, 41>>,
    <<3, "C", "D", "A", "B", 3, 16, 42>>, <<3, "B", "C", "D", "A", 6, 23, 43>>,
    <<3, "A", "B", "C", "D", 9, 4, 44>>, <<3, "D", "A", "B", "C", 12, 11, 45>>,
    <<3, "C", "D", "A", "B", 15, 16, 46>>, <<3, "B", "C", "D", "A", 2, 23, 47>>,
    <<4, "A", "B", "C", "D", 0, 6, 48>>, <<4, "D", "A", "B", "C", 7, 10, 49>>,
    <<4, "C", "D", "A", "B", 14, 15, 50>>, <<4, "B", "C", "D", "A", 5, 21, 51>>,
    <<4, "A", "B", "C", "D", 12, 6, 52>>, <<4, "D", "A", "B", "C", 3, 10, 53>>,
    <<4, "C", "D", "A", "B", 10, 15, 54>>, <<4, "B", "C", "D", "A", 1, 21, 55>>,
    <<4, "A", "B", "C", "D", 8, 6, 56>>, <<4, "D", "A", "B", "C", 15, 10, 57>>,
    <<4, "C", "D", "A", "B", 6, 15, 58>>, <<4, "B", "C", "D", "A", 13, 21, 59>>,
    <<4, "A", "B", "C", "D", 4, 6, 60>>, <<4, "D", "A", "B", "C", 11, 10, 61>>,
    <<4, "C", "D", "A", "B", 2, 15, 62>>, <<4, "B", "C", "D", "A", 9, 21, 63>>
  >>

\* The round function macro STEPn applies (each macro ignores its argument f).
StepFn(n, x, y, z) ==
  CASE n = 1 -> F(x, y, z)
    [] n = 2 -> G(x, y, z)
    [] n = 3 -> H(x, y, z)
    [] n = 4 -> I(x, y, z)

\* A variant that takes the constant at the message index in every round.
StepKAtMessageIndex(st, M, r) ==
  LET a == st[2]
      b == st[3]
      f == StepFn(st[1], r[b], r[st[4]], r[st[5]])
      sum == Add(r[a], Add(Add(f, M[st[6] + 1]), K[st[6] + 1]))
  IN  [r EXCEPT ![a] = Add(r[b], leftRotate(sum, st[7]))]

\* a += Fn(b, c, d) + M[k] + K[i]; a = b + leftRotate(a, s)
\* r maps the register names A, B, C, D to their words.
Step(st, M, r) ==
  LET a == st[2]
      b == st[3]
      f == StepFn(st[1], r[b], r[st[4]], r[st[5]])
      sum == Add(r[a], Add(Add(f, M[st[6] + 1]), K[st[8] + 1]))
  IN  [r EXCEPT ![a] = Add(r[b], leftRotate(sum, st[7]))]

\* transform of src/src/Md5.cpp on the 64 bytes of buf after offset off:
\* the new a0, b0, c0, d0.
md5Transform(buf, off, h) ==
  LET M == DecodeLE(buf, off)
      Body(n, s) == Step(Steps[n], M, s)
      r == Loop(Body, 1, Len(Steps), [A |-> h[1], B |-> h[2], C |-> h[3], D |-> h[4]])
  IN  <<Add(h[1], r.A), Add(h[2], r.B), Add(h[3], r.C), Add(h[4], r.D)>>

\* Round j of the loop of md5 (src/Md5.cpp, lines 87-108) on v = <<A, B, C, D>>.
md5Round(j, M, v) ==
  LET A == v[1] B == v[2] C == v[3] D == v[4]
      f == IF j < 16 THEN F(B, C, D)
           ELSE IF j < 32 THEN G(B, C, D)
           ELSE IF j < 48 THEN H(B, C, D)
           ELSE I(B, C, D)
      g == IF j < 16 THEN j
           ELSE IF j < 32 THEN (5 * j + 1) % 16
           ELSE IF j < 48 THEN (3 * j + 5) % 16
           ELSE (7 * j) % 16
      temp == D
  IN  <<temp, Add(B, leftRotate(Add(Add(Add(A, f), Kmd5[j + 1]), M[g + 1]), S[j + 1])), B, C>>

\* One iteration of the chunk loop of md5 (src/Md5.cpp, lines 73-114).
md5Chunk(buf, off, h) ==
  LET M == DecodeLE(buf, off)
      Body(j, s) == md5Round(j, M, s)
      v == Loop(Body, 0, 63, h)
  IN  <<Add(h[1], v[1]), Add(h[2], v[2]), Add(h[3], v[3]), Add(h[4], v[4])>>

\* (v >> (i * 8)) & 0xFF of a 64-bit value v, for i in 0..7.
ByteAt(v, i) == DigitsByte(v, 15 - 2 * i)

\* The 8 bytes of a 64-bit value, least significant first.
LengthLE(v) == Tup([i \in 1..8 |-> ByteAt(v, i - 1)])
\* The 8 bytes of a 64-bit value, most significant first.
LengthBE(v) == Tup([i \in 1..8 |-> ByteAt(v, 8 - i)])

\* message.length() * 8 as a uint64_t.
BitsOf(len) == Shl(WordOf(len, 16), 3)

\* A variant of the loop condition that pads to a full block.
PadMoreFull(size) == (size * 8) % 512 # 0

\* The padding loop of md5 and sha1:
\* while ((paddedMessage.size() * 8) % 512 != 448) push_back(0x00).
PadMore(size) == (size * 8) % 512 # 448

\* The condition depends on the size modulo 64 only and is false for one size
\* in every 64, so the loop ends within 63 iterations: it is run here as 64
\* conditional iterations.
PadZeros(p) ==
  LET Body(i, s) == IF PadMore(Len(s)) THEN Append(s, 0) ELSE s
  IN  Loop(Body, 1, 64, p)

\* paddedMessage of md5 (src/Md5.cpp, lines 58-70).
md5Pad(message) ==
  PadZeros(Append(message, 128)) \o LengthLE(BitsOf(Len(message)))

RECURSIVE md5Chunks(_, _, _)
md5Chunks(p, off, h) ==
  IF off >= Len(p) THEN h ELSE md5Chunks(p, off + 64, md5Chunk(p, off, h))

\* cout << hex << setfill('0') << setw(w) << v for an unsigned value v given
\* by its digits: the digits without leading zeros (one 0 for zero), filled
\* on the left with '0' up to the width w when shorter.
HexChar == <<"0","1","2","3","4","5","6","7","8","9","a","b","c","d","e","f">>

RECURSIVE StripZeros(_)
StripZeros(d) ==
  IF Len(d) > 1 /\ d[1] = 0 THEN StripZeros(Tail(d)) ELSE d

HexText(d) == Tup([i \in 1..Len(d) |-> HexChar[d[i] + 1]])

RECURSIVE Fill(_, _)
Fill(text, w) == IF Len(text) < w THEN Fill(<<"0">> \o text, w) ELSE text

\* A variant without setfill('0') and setw.
PrintHexNoFill(d, w) == HexText(StripZeros(d))

PrintHex(d, w) == Fill(HexText(StripZeros(d)), w)

\* The output loop of both MD5 programs: the bytes of each result word in
\* memory order, each printed with setw(2).  The programs target
\* little-endian hosts (x86), where bytes[0] is the least significant byte.
\* A variant that prints the bytes of a word most significant first.
RECURSIVE md5PrintBytesMsbFirst(_, _)
md5PrintBytesMsbFirst(w, j) ==
  IF j > 3 THEN <<>>
  ELSE PrintHex(ByteDigits(WordBytes(w)[j + 1]), 2) \o md5PrintBytesMsbFirst(w, j + 1)

RECURSIVE md5PrintBytes(_, _)
md5PrintBytes(w, j) ==
  IF j > 3 THEN <<>>
  ELSE PrintHex(ByteDigits(WordBytes(w)[4 - j]), 2) \o md5PrintBytes(w, j + 1)

RECURSIVE md5Print(_, _)
md5Print(h, i) ==
  IF i > Len(h) THEN <<>> ELSE md5PrintBytes(h[i], 0) \o md5Print(h, i + 1)

\* What md5(message) writes to cout (src/Md5.cpp).
md5(message) == md5Print(md5Chunks(md5Pad(message), 0, Md5Init), 1)

(***************************************************************************)
(* SHA-1: src/src/Sha1.cpp (streaming driver) and src/Sha1.cpp (one-shot). *)
(***************************************************************************)
\* The initial SHA-1 state h0 .. h4.
Sha1Init ==
  << <<6,7,4,5,2,3,0,1>>, <<14,15,12,13,10,11,8,9>>, <<9,8,11,10,13,12,15,14>>,
     <<1,0,3,2,5,4,7,6>>, <<12,3,13,2,14,1,15,0>> >>

\* The round constants 0x5A827999, 0x6ED9EBA1, 0x8F1BBCDC and 0xCA62C1D6.
Sha1K ==
  << <<5,10,8,2,7,9,9,9>>, <<6,14,13,9,14,11,10,1>>,
     <<8,15,1,11,11,12,13,12>>, <<12,10,6,2,12,1,13,6>> >>

\* w[j] = block[4j] << 24 | block[4j+1] << 16 | block[4j+2] << 8 | block[4j+3]
\* for the 64 bytes of buf after offset off (indexed from 1 here).
\* A variant that decodes the words least significant byte first.
DecodeBELittle(buf, off) == DecodeLE(buf, off)

DecodeBE(buf, off) ==
  Tup([j \in 1..16 |->
         ByteDigits(buf[off + 4 * j - 3]) \o ByteDigits(buf[off + 4 * j - 2])
           \o ByteDigits(buf[off + 4 * j - 1]) \o ByteDigits(buf[off + 4 * j])])

\* w[j] = leftRotate(w[j-3] ^ w[j-8] ^ w[j-14] ^ w[j-16], 1) for j = 16..79.
sha1Extend(j, w) ==
  Append(w, leftRotate(Xor(Xor(Xor(w[j - 2], w[j - 7]), w[j - 13]), w[j - 15]), 1))

sha1Schedule(buf, off) == Loop(sha1Extend, 16, 79, DecodeBE(buf, off))

\* temp = leftRotate(a, 5) + f + e + k + w[j];
\* e = d; d = c; c = leftRotate(b, 30); b = a; a = temp
sha1Mix(v, f, k, wj) ==
  LET temp == Add(Add(Add(Add(leftRotate(v[1], 5), f), v[5]), k), wj)
  IN  <<temp, v[1], leftRotate(v[2], 30), v[3], v[4]>>

\* The round functions of the four rounds.
sha1F1(b, c, d) == Or(And(b, c), And(Not(b), d))
sha1F2(b, c, d) == Xor(Xor(b, c), d)
sha1F3(b, c, d) == Or(Or(And(b, c), And(b, d)), And(c, d))

\* transform of src/src/Sha1.cpp: the four loops over j = 0..19, 20..39,
\* 40..59 and 60..79, then h0 += a, ..., h4 += e.
sha1Transform(buf, off, h) ==
  LET w == sha1Schedule(buf, off)
      R1(j, s) == sha1Mix(s, sha1F1(s[2], s[3], s[4]), Sha1K[1], w[j + 1])
      R2(j, s) == sha1Mix(s, sha1F2(s[2], s[3], s[4]), Sha1K[2], w[j + 1])
      R3(j, s) == sha1Mix(s, sha1F3(s[2], s[3], s[4]), Sha1K[3], w[j + 1])
      R4(j, s) == sha1Mix(s, sha1F2(s[2], s[3], s[4]), Sha1K[4], w[j + 1])
      v == Loop(R4, 60, 79, Loop(R3, 40, 59, Loop(R2, 20, 39, Loop(R1, 0, 19, h))))
  IN  <<Add(h[1], v[1]), Add(h[2], v[2]), Add(h[3], v[3]), Add(h[4], v[4]),
        Add(h[5], v[5])>>

\* Round j of the single loop of sha1 (src/Sha1.cpp, lines 61-84).
sha1Round(j, w, v) ==
  LET b == v[2] c == v[3] d == v[4]
      f == IF j < 20 THEN Or(And(b, c), And(Not(b), d))
           ELSE IF j < 40 THEN Xor(Xor(b, c), d)
           ELSE IF j < 60 THEN Or(Or(And(b, c), And(b, d)), And(c, d))
           ELSE Xor(Xor(b, c), d)
      k == IF j < 20 THEN Sha1K[1]
           ELSE IF j < 40 THEN Sha1K[2]
           ELSE IF j < 60 THEN Sha1K[3]
           ELSE Sha1K[4]
  IN  sha1Mix(v, f, k, w[j + 1])

\* One iteration of the chunk loop of sha1 (src/Sha1.cpp, lines 39-91).
sha1Chunk(buf, off, h) ==
  LET w == sha1Schedule(buf, off)
      Body(j, s) == sha1Round(j, w, s)
      v == Loop(Body, 0, 79, h)
  IN  <<Add(h[1], v[1]), Add(h[2], v[2]), Add(h[3], v[3]), Add(h[4], v[4]),
        Add(h[5], v[5])>>

\* paddedMessage of sha1 (src/Sha1.cpp, lines 24-36).
sha1Pad(message) ==
  PadZeros(Append(message, 128)) \o LengthBE(BitsOf(Len(message)))

RECURSIVE sha1Chunks(_, _, _)
sha1Chunks(p, off, h) ==
  IF off >= Len(p) THEN h ELSE sha1Chunks(p, off + 64, sha1Chunk(p, off, h))

\* The output loop of both SHA-1 programs: each word with setw(8).
RECURSIVE sha1Print(_, _)
sha1Print(h, i) ==
  IF i > Len(h) THEN <<>> ELSE PrintHex(h[i], 8) \o sha1Print(h, i + 1)

\* What sha1(message) writes to cout (src/Sha1.cpp).
sha1(message) == sha1Print(sha1Chunks(sha1Pad(message), 0, Sha1Init), 1)

(***************************************************************************)
(* SHA-256 and SHA-384 (src/sha.h, src/Sha256.cpp, src/src/Sha384.cpp).    *)
(* A vector<bool> or bitset is a sequence of bits 0 and 1, whose index i   *)
(* of the C++ is index i + 1 here.                                         *)
(***************************************************************************)
H384 ==
  <<
    <<12,11,11,11,9,13,5,13,12,1,0,5,9,14,13,8>>, <<6,2,9,10,2,9,2,10,3,6,7,12,13,5,0,7>>,
    <<9,1,5,9,0,1,5,10,3,0,7,0,13,13,1,7>>, <<1,5,2,15,14,12,13,8,15,7,0,14,5,9,3,9>>,
    <<6,7,3,3,2,6,6,7,15,15,12,0,0,11,3,1>>, <<8,14,11,4,4,10,8,7,6,8,5,8,1,5,1,1>>,
    <<13,11,0,12,2,14,0,13,6,4,15,9,8,15,10,7>>, <<4,7,11,5,4,8,1,13,11,14,15,10,4,15,10,4>>
  >>

K384 ==
  <<
    <<4,2,8,10,2,15,9,8,13,7,2,8,10,14,2,2>>, <<7,1,3,7,4,4,9,1,2,3,14,15,6,5,12,13>>,
    <<11,5,12,0,15,11,12,15,14,12,4,13,3,11,2,15>>, <<14,9,11,5,13,11,10,5,8,1,8,9,13,11,11,12>>,
    <<3,9,5,6,12,2,5,11,15,3,4,8,11,5,3,8>>, <<5,9,15,1,1,1,15,1,11,6,0,5,13,0,1,9>>,
    <<9,2,3,15,8,2,10,4,10,15,1,9,4,15,9,11>>, <<10,11,1,12,5,14,13,5,13,10,6,13,8,1,1,8>>,
    <<13,8,0,7,10,10,9,8,10,3,0,3,0,2,4,2>>, <<1,2,8,3,5,11,0,1,4,5,7,0,6,15,11,14>>,
    <<2,4,3,1,8,5,11,14,4,14,14,4,11,2,8,12>>, <<5,5,0,12,7,13,12,3,13,5,15,15,11,4,14,2>>,
    <<7,2,11,14,5,13,7,4,15,2,7,11,8,9,6,15>>, <<8,0,13,14,11,1,15,14,3,11,1,6,9,6,11,1>>,
    <<9,11,13,12,0,6,10,7,2,5,12,7,1,2,3,5>>, <<12,1,9,11,15,1,7,4,12,15,6,9,2,6,9,4>>,
    <<14,4,9,11,6,9,12,1,9,14,15,1,4,10,13,2>>, <<14,15,11,14,4,7,8,6,3,8,4,15,2,5,14,3>>,
    <<0,15,12,1,9,13,12,6,8,11,8,12,13,5,11,5>>, <<2,4,0,12,10,1,12,12,7,7,10,12,9,12,6,5>>,
    <<2,13,14,9,2,12,6,15,5,9,2,11,0,2,7,5>>, <<4,10,7,4,8,4,10,10,6,14,10,6,14,4,8,3>>,
    <<5,12,11,0,10,9,13,12,11,13,4,1,15,11,13,4>>, <<7,6,15,9,8,8,13,10,8,3,1,1,5,3,11,5>>,
    <<9,8,3,14,5,1,5,2,14,14,6,6,13,15,10,11>>, <<10,8,3,1,12,6,6,13,2,13,11,4,3,2,1,0>>,
    <<11,0,0,3,2,7,12,8,9,8,15,11,2,1,3,15>>, <<11,15,5,9,7,15,12,7,11,14,14,15,0,14,14,4>>,
    <<12,6,14,0,0,11,15,3,3,13,10,8,8,15,12,2>>, <<13,5,10,7,9,1,4,7,9,3,0,10,10,7,2,5>>,
    <<0,6,12,10,6,3,5,1,14,0,0,3,8,2,6,15>>, <<1,4,2,9,2,9,6,7,0,10,0,14,6,14,7,0>>,
    <<2,7,11,7,0,10,8,5,4,6,13,2,2,15,15,12>>, <<2,14,1,11,2,1,3,8,5,12,2,6,12,9,2,6>>,
    <<4,13,2,12,6,13,15,12,5,10,12,4,2,10,14,13>>, <<5,3,3,8,0,13,1,3,9,13,9,5,11,3,13,15>>,
    <<6,5,0,10,7,3,5,4,8,11,10,15,6,3,13,14>>, <<7,6,6,10,0,10,11,11,3,12,7,7,11,2,10,8>>,
    <<8,1,12,2,12,9,2,14,4,7,14,13,10,14,14,6>>, <<9,2,7,2,2,12,8,5,1,4,8,2,3,5,3,11>>,
    <<10,2,11,15,14,8,10,1,4,12,15,1,0,3,6,4>>, <<10,8,1,10,6,6,4,11,11,12,4,2,3,0,0,1>>,
    <<12,2,4,11,8,11,7,0,13,0,15,8,9,7,9,1>>, <<12,7,6,12,5,1,10,3,0,6,5,4,11,14,3,0>>,
    <<13,1,9,2,14,8,1,9,13,6,14,15,5,2,1,8>>, <<13,6,9,9,0,6,2,4,5,5,6,5,10,9,1,0>>,
    <<15,4,0,14,3,5,8,5,5,7,7,1,2,0,2,10>>, <<1,0,6,10,10,0,7,0,3,2,11,11,13,1,11,8>>,
    <<1,9,10,4,12,1,1,6,11,8,13,2,13,0,12,8>>, <<1,14,3,7,6,12,0,8,5,1,4,1,10,11,5,3>>,
    <<2,7,4,8,7,7,4,12,13,15,8,14,14,11,9,9>>, <<3,4,11,0,11,12,11,5,14,1,9,11,4,8,10,8>>,
    <<3,9,1,12,0,12,11,3,12,5,12,9,5,10,6,3>>, <<4,14,13,8,10,10,4,10,14,3,4,1,8,10,12,11>>,
    <<5,11,9,12,12,10,4,15,7,7,6,3,14,3,7,3>>, <<6,8,2,14,6,15,15,3,13,6,11,2,11,8,10,3>>,
    <<7,4,8,15,8,2,14,14,5,13,14,15,11,2,15,12>>, <<7,8,10,5,6,3,6,15,4,3,1,7,2,15,6,0>>,
    <<8,4,12,8,7,8,1,4,10,1,15,0,10,11,7,2>>, <<8,12,12,7,0,2,0,8,1,10,6,4,3,9,14,12>>,
    <<9,0,11,14,15,15,15,10,2,3,6,3,1,14,2,8>>, <<10,4,5,0,6,12,14,11,13,14,8,2,11,13,14,9>>,
    <<11,14,15,9,10,3,15,7,11,2,12,6,7,9,1,5>>, <<12,6,7,1,7,8,15,2,14,3,7,2,5,3,2,11>>,
    <<12,10,2,7,3,14,12,14,14,10,2,6,6,1,9,12>>, <<13,1,8,6,11,8,12,7,2,1,12,0,12,2,0,7>>,
    <<14,10,13,10,7,13,13,6,12,13,14,0,14,11,1,14>>, <<15,5,7,13,4,15,7,15,14,14,6,14,13,1,7,8>>,
    <<0,6,15,0,6,7,10,10,7,2,1,7,6,15,11,10>>, <<0,10,6,3,7,13,12,5,10,2,12,8,9,8,10,6>>,
    <<1,1,3,15,9,8,0,4,11,14,15,9,0,13,10,14>>, <<1,11,7,1,0,11,3,5,1,3,1,12,4,7,1,11>>,
    <<2,8,13,11,7,7,15,5,2,3,0,4,7,13,8,4>>, <<3,2,12,10,10,11,7,11,4,0,12,7,2,4,9,3>>,
    <<3,12,9,14,11,14,0,10,1,5,12,9,11,14,11,12>>, <<4,3,1,13,6,7,12,4,9,12,1,0,0,13,4,12>>,
    <<4,12,12,5,13,4,11,14,12,11,3,14,4,2,11,6>>, <<5,9,7,15,2,9,9,12,15,12,6,5,7,14,2,10>>,
    <<5,15,12,11,6,15,10,11,3,10,13,6,15,10,14,12>>, <<6,12,4,4,1,9,8,12,4,10,4,7,5,8,1,7>>
  >>

H256 ==
  <<
    <<6,10,0,9,14,6,6,7>>, <<11,11,6,7,10,14,8,5>>, <<3,12,6,14,15,3,7,2>>, <<10,5,4,15,15,5,3,10>>,
    <<5,1,0,14,5,2,7,15>>, <<9,11,0,5,6,8,8,12>>, <<1,15,8,3,13,9,10,11>>, <<5,11,14,0,12,13,1,9>>
  >>

K256 ==
  <<
    <<4,2,8,10,2,15,9,8>>, <<7,1,3,7,4,4,9,1>>, <<11,5,12,0,15,11,12,15>>, <<14,9,11,5,13,11,10,5>>,
    <<3,9,5,6,12,2,5,11>>, <<5,9,15,1,1,1,15,1>>, <<9,2,3,15,8,2,10,4>>, <<10,11,1,12,5,14,13,5>>,
    <<13,8,0,7,10,10,9,8>>, <<1,2,8,3,5,11,0,1>>, <<2,4,3,1,8,5,11,14>>, <<5,5,0,12,7,13,12,3>>,
    <<7,2,11,14,5,13,7,4>>, <<8,0,13,14,11,1,15,14>>, <<9,11,13,12,0,6,10,7>>, <<12,1,9,11,15,1,7,4>>,
    <<14,4,9,11,6,9,12,1>>, <<14,15,11,14,4,7,8,6>>, <<0,15,12,1,9,13,12,6>>, <<2,4,0,12,10,1,12,12>>,
    <<2,13,14,9,2,12,6,15>>, <<4,10,7,4,8,4,10,10>>, <<5,12,11,0,10,9,13,12>>, <<7,6,15,9,8,8,13,10>>,
    <<9,8,3,14,5,1,5,2>>, <<10,8,3,1,12,6,6,13>>, <<11,0,0,3,2,7,12,8>>, <<11,15,5,9,7,15,12,7>>,
    <<12,6,14,0,0,11,15,3>>, <<13,5,10,7,9,1,4,7>>, <<0,6,12,10,6,3,5,1>>, <<1,4,2,9,2,9,6,7>>,
    <<2,7,11,7,0,10,8,5>>, <<2,14,1,11,2,1,3,8>>, <<4,13,2,12,6,13,15,12>>, <<5,3,3,8,0,13,1,3>>,
    <<6,5,0,10,7,3,5,4>>, <<7,6,6,10,0,10,11,11>>, <<8,1,12,2,12,9,2,14>>, <<9,2,7,2,2,12,8,5>>,
    <<10,2,11,15,14,8,10,1>>, <<10,8,1,10,6,6,4,11>>, <<12,2,4,11,8,11,7,0>>, <<12,7,6,12,5,1,10,3>>,
    <<13,1,9,2,14,8,1,9>>, <<13,6,9,9,0,6,2,4>>, <<15,4,0,14,3,5,8,5>>, <<1,0,6,10,10,0,7,0>>,
    <<1,9,10,4,12,1,1,6>>, <<1,14,3,7,6,12,0,8>>, <<2,7,4,8,7,7,4,12>>, <<3,4,11,0,11,12,11,5>>,
    <<3,9,1,12,0,12,11,3>>, <<4,14,13,8,10,10,4,10>>, <<5,11,9,12,12,10,4,15>>, <<6,8,2,14,6,15,15,3>>,
    <<7,4,8,15,8,2,14,14>>, <<7,8,10,5,6,3,6,15>>, <<8,4,12,8,7,8,1,4>>, <<8,12,12,7,0,2,0,8>>,
    <<9,0,11,14,15,15,15,10>>, <<10,4,5,0,6,12,14,11>>, <<11,14,15,9,10,3,15,7>>, <<12,6,7,1,7,8,15,2>>
  >>

\* bitset<8> b(c); for (i = 7; i >= 0; --i) bits.push_back(b[i])
ByteBits(b) == NibBits(b \div 16) \o NibBits(b % 16)

TextToBinaryString(words) ==
  Tup([k \in 1..(8 * Len(words)) |-> ByteBits(words[((k - 1) \div 8) + 1])[((k - 1) % 8) + 1]])

\* (x >> i) & 1 of a word x.
BitOf(x, i) == NibBits(x[Len(x) - (i \div 4)])[4 - (i % 4)]

\* The word of the given number of digits whose value is the bit b.
BitWord(b, digits) == [WordOf(0, digits) EXCEPT ![digits] = b]

\* bitsToUsignedInt<T>(bits, start) for a T of the given number of hex
\* digits: 32 iterations of value <<= 1; value |= bits[start + i], whatever
\* the width of T.
bitsToUsignedInt(bits, start, digits) ==
  LET Body(i, value) == Or(Shl(value, 1), BitWord(bits[start + i + 1], digits))
  IN  Loop(Body, 0, 31, WordOf(0, digits))

rotateRightByN(x, n, digestsBit) == Or(Shr(x, n), Shl(x, digestsBit - n))

\* w[i] = bitsToUsignedInt<uint64_t>(binMessage, pointer + i * 64), i = 0..15.
sha384Words(binMessage, pointer) ==
  Tup([i \in 1..16 |-> bitsToUsignedInt(binMessage, pointer + (i - 1) * 64, 16)])

\* w[i] = w[i-16] + s0 + w[i-7] + s1 for i = 16..79.
sha384Extend(i, w) ==
  LET x == w[i - 14]
      y == w[i - 1]
      s0 == Xor(Xor(rotateRightByN(x, 1, 64), rotateRightByN(x, 8, 64)), Shr(x, 7))
      s1 == Xor(Xor(rotateRightByN(y, 19, 64), rotateRightByN(y, 61, 64)), Shr(y, 6))
  IN  Append(w, Add(Add(Add(w[i - 15], s0), w[i - 6]), s1))

\* One iteration of the compression loop on <<a, b, c, d, e, f, g, h>>.
sha384Round(i, w, v) ==
  LET a == v[1]
      b == v[2]
      c == v[3]
      d == v[4]
      e == v[5]
      f == v[6]
      g == v[7]
      S1 == Xor(Xor(rotateRightByN(e, 14, 64), rotateRightByN(e, 18, 64)),
                rotateRightByN(e, 41, 64))
      ch == Xor(And(e, f), And(Not(e), g))
      temp1 == Add(Add(Add(Add(v[8], S1), ch), K384[i + 1]), w[i + 1])
      S0 == Xor(Xor(rotateRightByN(a, 28, 64), rotateRightByN(a, 34, 64)),
                rotateRightByN(a, 39, 64))
      maj == Xor(Xor(And(a, b), And(a, c)), And(b, c))
      temp2 == Add(S0, maj)
  IN  <<Add(temp1, temp2), a, b, c, Add(d, temp1), e, f, g>>

\* The body of the chunk loop of processing: sqrtTemp after the chunk at
\* bit offset pointer.
sha384Chunk(binMessage, pointer, sqrtTemp) ==
  LET w == Loop(sha384Extend, 16, 79, sha384Words(binMessage, pointer))
      Body(i, s) == sha384Round(i, w, s)
      v == Loop(Body, 0, 79, sqrtTemp)
  IN  Tup([i \in 1..8 |-> Add(sqrtTemp[i], v[i])])

\* w[i] = bitsToUsignedInt<uint32_t>(binMessage, pointer + i * 32), i = 0..15.
sha256Words(binMessage, pointer) ==
  Tup([i \in 1..16 |-> bitsToUsignedInt(binMessage, pointer + (i - 1) * 32, 8)])

\* w[i] = w[i-16] + s0 + w[i-7] + s1 for i = 16..63.
sha256Extend(i, w) ==
  LET x == w[i - 14]
      y == w[i - 1]
      s0 == Xor(Xor(rotateRightByN(x, 7, 32), rotateRightByN(x, 18, 32)), Shr(x, 3))
      s1 == Xor(Xor(rotateRightByN(y, 17, 32), rotateRightByN(y, 19, 32)), Shr(y, 10))
  IN  Append(w, Add(Add(Add(w[i - 15], s0), w[i - 6]), s1))

\* One iteration of the compression loop on <<a, b, c, d, e, f, g, h>>.
sha256Round(i, w, v) ==
  LET a == v[1]
      b == v[2]
      c == v[3]
      d == v[4]
      e == v[5]
      f == v[6]
      g == v[7]
      S1 == Xor(Xor(rotateRightByN(e, 6, 32), rotateRightByN(e, 11, 32)),
                rotateRightByN(e, 25, 32))
      ch == Xor(And(e, f), And(Not(e), g))
      temp1 == Add(Add(Add(Add(v[8], S1), ch), K256[i + 1]), w[i + 1])
      S0 == Xor(Xor(rotateRightByN(a, 2, 32), rotateRightByN(a, 13, 32)),
                rotateRightByN(a, 22, 32))
      maj == Xor(Xor(And(a, b), And(a, c)), And(b, c))
      temp2 == Add(S0, maj)
  IN  <<Add(temp1, temp2), a, b, c, Add(d, temp1), e, f, g>>

\* The body of the chunk loop of processing (src/Sha256.cpp): sqrtTemp
\* after the chunk at bit offset pointer.
sha256Chunk(binMessage, pointer, sqrtTemp) ==
  LET w == Loop(sha256Extend, 16, 63, sha256Words(binMessage, pointer))
      Body(i, s) == sha256Round(i, w, s)
      v == Loop(Body, 0, 63, sqrtTemp)
  IN  Tup([i \in 1..8 |-> Add(sqrtTemp[i], v[i])])

\* digest.push_back((sqrtTemp[i] >> j) & 1) for the first n words, j from the
\* top bit down.
DigestBits(sqrtTemp, n) ==
  LET width == 4 * Len(sqrtTemp[1])
  IN  Tup([k \in 1..(n * width) |->
             BitOf(sqrtTemp[((k - 1) \div width) + 1], width - 1 - ((k - 1) % width))])

\* value |= (1 << (3 - j)) for the set bits[i + j], j = 0..3.
NibbleAt(bits, i) == 8 * bits[i + 1] + 4 * bits[i + 2] + 2 * bits[i + 3] + bits[i + 4]

Reverse(s) == Tup([k \in 1..Len(s) |-> s[Len(s) + 1 - k]])

\* A variant that does not reverse the string.
bitsetToHexNoReverse(bits, digestsBit) ==
  Tup([k \in 1..(digestsBit \div 4) |->
         HexChar[NibbleAt(bits, digestsBit - 4 * k) + 1]])

\* bitsetToHex (src/sha.h): one hex character for each group of 4 bits from
\* i = digestsBit - 4 down to 0, and then the string reversed.
bitsetToHex(bits, digestsBit) ==
  Reverse(Tup([k \in 1..(digestsBit \div 4) |->
                 HexChar[NibbleAt(bits, digestsBit - 4 * k) + 1]]))

(***************************************************************************)
(* The state of one run of a program.                                      *)
(***************************************************************************)
VARIABLES
  alg,         \* the program that runs
  msg,         \* the bytes on stdin; in the sha256 driver, the line read last
  pos,         \* how many bytes of msg have been read (streaming drivers);
               \* chunkIter of processing (SHA-384)
  buffer,      \* uint8_t buffer[64] of the streaming drivers
  h,           \* the hash state (a0..d0, h0..h4, sqrtTemp[0..7])
  totalBytes,  \* uint64_t totalBytes
  bytesRead,   \* size_t bytesRead (cin.gcount() after the failed read)
  calls,       \* the blocks handed to the compression function, in order,
               \* each with the phase that handed it over ("loop" or "final"
               \* in a streaming driver, "chunk" in a chunk loop)
  padded,      \* paddedMessage (bytes) or binMessage (bits) of a one-shot program
  zeros,       \* the zero elements the padding loop has pushed so far (int K)
  w,           \* w[0..15] of the chunk processed last
  out,         \* the characters of the digest written to cout last
  expected,    \* size_t totalExpectedSize (streaming drivers), totalSize (others)
  progress,    \* the calls of reportProgress so far, each as <<current, total>>
  cin,         \* std::cin of the sha256 driver: the bytes on stdin, how many
               \* of them have been read and whether the stream is good()
  digests,     \* the digests written to cout so far, in order
  pc           \* where the program is

vars == <<alg, msg, pos, buffer, h, totalBytes, bytesRead, calls, padded, zeros,
          w, out, expected, progress, cin, digests, pc>>

\* The value of a byte of an array that nothing has written yet.
Uninit == -1

\* The input bytes: a test pattern of every length, and the message "abc".
Pattern(n) == Tup([i \in 1..n |-> (7 * (i - 1) + 3) % 256])
Abc == <<97, 98, 99>>
\* Lengths that reach a second and a third full block.
LongLens == {120, 127, 128, 130, 192}
Msgs == {Pattern(n) : n \in (0..MaxLen) \cup LongLens} \cup {Abc}

Zero64 == WordOf(0, 16)

\* cin with the bytes s on stdin and none of them read, and cin where the
\* model does not follow it.
Stdin(s) == [bytes |-> s, at |-> 0, good |-> TRUE]
NoStdin == Stdin(<<>>)

\* reportProgress(current, total), which src/common.h is expected to declare
\* and no source file defines: an observer that is told the two numbers and
\* touches nothing of the program.  log is what it has been told so far.
reportProgress(log, current, total) == Append(log, <<current, total>>)

\* if (totalExpectedSize > 0) reportProgress(current, totalExpectedSize)
Report(log, current, total) ==
  IF total # Zero64 THEN reportProgress(log, current, total) ELSE log

\* argv[1] of a streaming driver: absent, a text std::stoull throws on, or
\* the digits of a number.  totalExpectedSize is 0 in the first two cases.
NoArg == [kind |-> "absent"]
JunkArg == [kind |-> "unparsable"]
NumArg(n) == [kind |-> "number", value |-> WordOf(n, 16)]
ParseArg(arg) == IF arg.kind = "number" THEN arg.value ELSE Zero64

\* memset(a, 0, n), memcpy(dst, src, n) and a[i] = b on byte arrays, whose
\* index i of the C++ is index i + 1 here.
Zeroed(n) == Tup([i \in 1..n |-> 0])
Memset0(a, n) == Tup([i \in 1..Len(a) |-> IF i <= n THEN 0 ELSE a[i]])
Memcpy(dst, src, n) == Tup([i \in 1..Len(dst) |-> IF i <= n THEN src[i] ELSE dst[i]])
Store(a, i, b) == [a EXCEPT ![i + 1] = b]

\* for (i = 0; i < 8; ++i) a[56 + i] = (totalBits >> (i * 8)) & 0xFF
StoreLengthLE(a, totalBits) ==
  Tup([i \in 1..Len(a) |-> IF i \in 57..64 THEN ByteAt(totalBits, i - 57) ELSE a[i]])
\* for (i = 7; i >= 0; --i) a[56 + (7 - i)] = (totalBits >> (i * 8)) & 0xFF
StoreLengthBE(a, totalBits) ==
  Tup([i \in 1..Len(a) |-> IF i \in 57..64 THEN ByteAt(totalBits, 64 - i) ELSE a[i]])

\* The first 64 bytes of an array: what transform reads of it.
Block(a) == SubSeq(a, 1, 64)

\* A streaming driver before its first read (src/src/Md5.cpp, lines 98-119;
\* src/src/Sha1.cpp, lines 82-103): the argument parsed, the state
\* initialised and the initial progress reported.
StreamStartArg(a, m, arg) ==
  /\ alg = a
  /\ msg = m
  /\ expected = ParseArg(arg)
  /\ progress = Report(<<>>, Zero64, ParseArg(arg))
  /\ cin = NoStdin
  /\ digests = <<>>
  /\ pos = 0
  /\ buffer = Tup([i \in 1..64 |-> Uninit])
  /\ h = IF a = "md5" THEN Md5Init ELSE Sha1Init
  /\ totalBytes = Zero64
  /\ bytesRead = 0
  /\ calls = <<>>
  /\ padded = <<>>
  /\ zeros = 0
  /\ w = <<>>
  /\ out = <<>>
  /\ pc = "loop"

\* A streaming driver run without arguments.
StreamStart(a, m) == StreamStartArg(a, m, NoArg)

Compress(a, block, st) ==
  IF a = "md5" THEN md5Transform(block, 0, st) ELSE sha1Transform(block, 0, st)

\* A variant that counts the bytes only when progress is reported.
ReadBlockCountIfReported(a) ==
  /\ pc = "loop"
  /\ alg = a
  /\ Len(msg) - pos >= 64
  /\ LET data == SubSeq(msg, pos + 1, pos + 64)
     IN  /\ buffer' = data
         /\ h' = Compress(a, data, h)
         /\ calls' = Append(calls, [phase |-> "loop", block |-> data])
  /\ pos' = pos + 64
  /\ totalBytes' = IF expected # Zero64 THEN Add(totalBytes, WordOf(64, 16))
                   ELSE totalBytes
  /\ progress' = Report(progress, totalBytes', expected)
  /\ UNCHANGED <<alg, msg, bytesRead, padded, zeros, w, out, expected, cin, digests, pc>>

\* One iteration of while (cin.read((char*)buffer, 64)): 64 bytes arrive,
\* totalBytes += 64 and the block is transformed.
ReadBlock(a) ==
  /\ pc = "loop"
  /\ alg = a
  /\ Len(msg) - pos >= 64
  /\ LET data == SubSeq(msg, pos + 1, pos + 64)
     IN  /\ buffer' = data
         /\ h' = Compress(a, data, h)
         /\ calls' = Append(calls, [phase |-> "loop", block |-> data])
  /\ pos' = pos + 64
  /\ totalBytes' = Add(totalBytes, WordOf(64, 16))
  /\ progress' = Report(progress, totalBytes', expected)
  /\ UNCHANGED <<alg, msg, bytesRead, padded, zeros, w, out, expected, cin, digests, pc>>

\* A variant that leaves the bytes of the tail out of totalBytes.
ReadTailNoCount(a) ==
  /\ pc = "loop"
  /\ alg = a
  /\ Len(msg) - pos < 64
  /\ LET n == Len(msg) - pos
     IN  /\ buffer' = Memcpy(buffer, SubSeq(msg, pos + 1, Len(msg)), n)
         /\ bytesRead' = n
  /\ pos' = Len(msg)
  /\ pc' = "pad"
  /\ UNCHANGED <<alg, msg, h, totalBytes, calls, padded, zeros, w, out, expected,
                 progress, cin, digests>>

\* The read that ends the loop: fewer than 64 bytes are left, cin.read stores
\* them at the start of buffer and fails; bytesRead = cin.gcount() and
\* totalBytes += bytesRead.
ReadTail(a) ==
  /\ pc = "loop"
  /\ alg = a
  /\ Len(msg) - pos < 64
  /\ LET n == Len(msg) - pos
     IN  /\ buffer' = Memcpy(buffer, SubSeq(msg, pos + 1, Len(msg)), n)
         /\ bytesRead' = n
         /\ totalBytes' = Add(totalBytes, WordOf(n, 16))
  /\ pos' = Len(msg)
  /\ pc' = "pad"
  /\ UNCHANGED <<alg, msg, h, calls, padded, zeros, w, out, expected, progress,
                 cin, digests>>

\* A variant with a 32-bit totalBits.
TotalBits32(bytes) == WordOf(0, 8) \o SubSeq(Shl(bytes, 3), 9, 16)

\* uint64_t totalBits = totalBytes * 8
TotalBits(bytes) == Shl(bytes, 3)

\* A variant that writes the marker one byte further on.
TailBlockLate(buf, n) == Store(Memcpy(Zeroed(128), buf, n), n + 1, 128)

\* memset(a, 0, 128); memcpy(a, buffer, bytesRead); a[bytesRead] = 0x80
TailBlock(buf, n) == Store(Memcpy(Zeroed(128), buf, n), n, 128)

\* The blocks that lines 136-195 of src/src/Md5.cpp hand to transform, in
\* order: padding when bytesRead >= 56 (line 159), then finalBlock once or
\* twice (lines 181, 185 and 194).
Md5FinalBlocks(buf, n, total) ==
  LET padding == TailBlock(buf, n)
      finalBlock == TailBlock(buf, n)
      first == IF n >= 56 THEN <<Block(padding)>> ELSE <<>>
  IN  IF n < 56
      THEN first \o <<Block(StoreLengthLE(finalBlock, TotalBits(total)))>>
      ELSE first \o <<Block(finalBlock),
                      Block(StoreLengthLE(Memset0(finalBlock, 64), TotalBits(total)))>>

\* A variant that transforms the first padding block twice.
Sha1FinalBlocksRepeat(buf, n, total) ==
  LET finalBlock == TailBlock(buf, n)
  IN  IF n < 56
      THEN <<Block(StoreLengthBE(finalBlock, TotalBits(total)))>>
      ELSE <<Block(finalBlock), Block(finalBlock),
             Block(StoreLengthBE(Memset0(finalBlock, 64), TotalBits(total)))>>

\* The blocks that lines 120-146 of src/src/Sha1.cpp hand to transform.
Sha1FinalBlocks(buf, n, total) ==
  LET finalBlock == TailBlock(buf, n)
  IN  IF n < 56
      THEN <<Block(StoreLengthBE(finalBlock, TotalBits(total)))>>
      ELSE <<Block(finalBlock),
             Block(StoreLengthBE(Memset0(finalBlock, 64), TotalBits(total)))>>

FinalBlocks(a, buf, n, total) ==
  IF a = "md5" THEN Md5FinalBlocks(buf, n, total) ELSE Sha1FinalBlocks(buf, n, total)

RECURSIVE CompressAll(_, _, _)
CompressAll(a, blocks, st) ==
  IF blocks = <<>> THEN st
  ELSE CompressAll(a, Tail(blocks), Compress(a, Head(blocks), st))

\* Padding and the final transforms.
Finalize(a) ==
  /\ pc = "pad"
  /\ alg = a
  /\ LET blocks == FinalBlocks(a, buffer, bytesRead, totalBytes)
     IN  /\ h' = CompressAll(a, blocks, h)
         /\ calls' = calls \o Tup([i \in 1..Len(blocks) |->
                                      [phase |-> "final", block |-> blocks[i]]])
  /\ pc' = "output"
  /\ UNCHANGED <<alg, msg, pos, buffer, totalBytes, bytesRead, padded, zeros, w,
                 out, expected, progress, cin, digests>>

\* The output loop, cout.flush() and endl.
Output(a) ==
  /\ pc = "output"
  /\ alg = a
  /\ out' = IF a = "md5" THEN md5Print(h, 1) ELSE sha1Print(h, 1)
  /\ digests' = Append(digests, out')
  /\ pc' = "done"
  /\ UNCHANGED <<alg, msg, pos, buffer, h, totalBytes, bytesRead, calls, padded,
                 zeros, w, expected, progress, cin>>

(***************************************************************************)
(* The one-shot programs: md5 (src/Md5.cpp, "md5fn"), sha1 (src/Sha1.cpp,  *)
(* "sha1fn"), sha256 (src/Sha256.cpp) and sha384 (src/src/Sha384.cpp).     *)
(* The padding and the chunk loops are modelled a step at a time.          *)
(***************************************************************************)
ByteAlgs == {"md5fn", "sha1fn"}
BitAlgs == {"sha256", "sha384"}
\* The one-shot programs whose main calls reportProgress.
Reporting == {"md5fn", "sha1fn", "sha384"}

\* The initial hash values of a program.
InitialHash(a) ==
  CASE a \in {"md5", "md5fn"} -> Md5Init
    [] a \in {"sha1", "sha1fn"} -> Sha1Init
    [] a = "sha256" -> H256
    [] a = "sha384" -> H384

\* The size of a block and of the length field, in the elements of the
\* program's padded message: bytes for md5 and sha1, bits for sha256 and
\* sha384.
BlockSize(a) == CASE a \in ByteAlgs -> 64 [] a = "sha256" -> 512 [] a = "sha384" -> 1024
LengthField(a) == CASE a \in ByteAlgs -> 8 [] a = "sha256" -> 64 [] a = "sha384" -> 128

\* A one-shot program that has read the message m from stdin and taken its
\* length as totalSize.
OneShotStart(a, m) ==
  /\ alg = a
  /\ msg = m
  /\ pos = 0
  /\ buffer = <<>>
  /\ h = InitialHash(a)
  /\ totalBytes = Zero64
  /\ bytesRead = 0
  /\ calls = <<>>
  /\ padded = <<>>
  /\ zeros = 0
  /\ w = <<>>
  /\ out = <<>>
  /\ expected = WordOf(Len(m), 16)
  /\ progress = <<>>
  /\ cin = NoStdin
  /\ digests = <<>>
  /\ pc = "start"

\* The call of the hash function: reportProgress(0, totalSize) in the mains
\* that report, then vector<uint8_t> paddedMessage(message.begin(),
\* message.end()), or binMessage = TextToBinaryString(strMessage,
\* messageBitLength).
PadStart ==
  /\ pc = "start"
  /\ padded' = IF alg \in ByteAlgs THEN msg ELSE TextToBinaryString(msg)
  /\ progress' = IF alg \in Reporting THEN reportProgress(progress, Zero64, expected)
                 ELSE progress
  /\ pc' = "marker"
  /\ UNCHANGED <<alg, msg, pos, buffer, h, totalBytes, bytesRead, calls, zeros, w,
                 out, expected, cin, digests>>

\* paddedMessage.push_back(0x80), or int K = 0; binMessage.push_back(true).
PadMarker ==
  /\ pc = "marker"
  /\ padded' = Append(padded, IF alg \in ByteAlgs THEN 128 ELSE 1)
  /\ zeros' = 0
  /\ pc' = "zeros"
  /\ UNCHANGED <<alg, msg, pos, buffer, h, totalBytes, bytesRead, calls, w, out,
                 expected, progress, cin, digests>>

\* The loop condition of preProcessing: (length + 1 + K + 64) % 512 != 0 for
\* sha256, (length + 1 + K + 128) % 1024 != 0 for sha384.
PadCondBits(a, length, k) ==
  IF a = "sha256" THEN (length + 1 + k + 64) % 512 # 0
  ELSE (length + 1 + k + 128) % 1024 # 0

\* The condition of the padding loop in the current state; messageBitLength
\* is the size of binMessage before the marker.
PadCond ==
  IF alg \in ByteAlgs THEN PadMore(Len(padded))
  ELSE PadCondBits(alg, 8 * Len(msg), zeros)

\* One iteration of the padding loop.
PadZero ==
  /\ pc = "zeros"
  /\ PadCond
  /\ padded' = Append(padded, 0)
  /\ zeros' = zeros + 1
  /\ UNCHANGED <<alg, msg, pos, buffer, h, totalBytes, bytesRead, calls, w, out, pc,
                 expected, progress, cin, digests>>

\* The bits (length >> i) & 1 for i from n - 1 down to 0, those with i >= 64
\* being 0 (src/src/Sha384.cpp, lines 23-28; src/Sha256.cpp, lines 20-22).
LengthBitsBE(length, n) ==
  Tup([k \in 1..n |-> IF n - k < 64 THEN BitOf(length, n - k) ELSE 0])

\* The length field a program appends for a message of len bytes.
LengthOf(a, len) ==
  CASE a = "md5fn" -> LengthLE(BitsOf(len))
    [] a = "sha1fn" -> LengthBE(BitsOf(len))
    [] a \in BitAlgs -> LengthBitsBE(WordOf(8 * len, 16), LengthField(a))

\* The end of the padding loop and the loop that appends the length.
PadLength ==
  /\ pc = "zeros"
  /\ ~PadCond
  /\ padded' = padded \o LengthOf(alg, Len(msg))
  /\ pos' = 0
  /\ pc' = "process"
  /\ UNCHANGED <<alg, msg, buffer, h, totalBytes, bytesRead, calls, zeros, w, out,
                 expected, progress, cin, digests>>

\* One iteration of the chunk loop of processing (src/src/Sha384.cpp).
Sha384Chunk ==
  /\ pc = "process"
  /\ alg = "sha384"
  /\ pos < Len(padded) \div 1024
  /\ w' = sha384Words(padded, pos * 1024)
  /\ h' = sha384Chunk(padded, pos * 1024, h)
  /\ calls' = Append(calls, [phase |-> "chunk",
                             block |-> SubSeq(padded, pos * 1024 + 1, pos * 1024 + 1024)])
  /\ pos' = pos + 1
  /\ UNCHANGED <<alg, msg, buffer, totalBytes, bytesRead, padded, zeros, out, pc,
                 expected, progress, cin, digests>>

\* The end of processing and of sha384: the digest bits of the first 6
\* words, copied into bitset<384> digest and printed with bitsetToHex; then
\* reportProgress(totalSize, totalSize) of main.
Sha384Emit ==
  /\ pc = "process"
  /\ alg = "sha384"
  /\ pos >= Len(padded) \div 1024
  /\ out' = bitsetToHex(DigestBits(h, 6), 384)
  /\ digests' = Append(digests, out')
  /\ progress' = reportProgress(progress, expected, expected)
  /\ pc' = "done"
  /\ UNCHANGED <<alg, msg, pos, buffer, h, totalBytes, bytesRead, calls, padded,
                 zeros, w, expected, cin>>

\* The end of processing and of sha256: the digest bits of the 8 words,
\* copied into bitset<256> digest and printed with bitsetToHex.
Sha256Emit ==
  /\ pc = "process"
  /\ alg = "sha256"
  /\ pos >= Len(padded) \div 512
  /\ out' = bitsetToHex(DigestBits(h, 8), 256)
  /\ digests' = Append(digests, out')
  /\ pc' = "done"
  /\ UNCHANGED <<alg, msg, pos, buffer, h, totalBytes, bytesRead, calls, padded,
                 zeros, w, expected, progress, cin>>


\* The most digests a run of the sha256 driver is followed for.
MaxDigests == 3

\* The sha256 driver before its first getline, with the bytes s on stdin.
Sha256Start(s) ==
  /\ alg = "sha256"
  /\ msg = <<>>
  /\ pos = 0
  /\ buffer = <<>>
  /\ h = H256
  /\ totalBytes = Zero64
  /\ bytesRead = 0
  /\ calls = <<>>
  /\ padded = <<>>
  /\ zeros = 0
  /\ w = <<>>
  /\ out = <<>>
  /\ expected = Zero64
  /\ progress = <<>>
  /\ cin = Stdin(s)
  /\ digests = <<>>
  /\ pc = "getline"

\* The index from which the bytes of c are unread up to the first '\n',
\* or to the end of the input when there is none.
LineEnd(c) ==
  LET stops == {i \in (c.at + 1)..Len(c.bytes) : c.bytes[i] = 10}
  IN  IF stops = {} THEN Len(c.bytes) + 1
      ELSE CHOOSE i \in stops : \A j \in stops : i <= j

\* getline(cin, input) on the stream c: a stream that is not good() fails
\* the sentry and leaves input as it was; otherwise input is the bytes up
\* to the first '\n', which is consumed, or up to the end of the input,
\* which sets eofbit.
GetLineInput(c, input) ==
  IF c.good THEN SubSeq(c.bytes, c.at + 1, LineEnd(c) - 1) ELSE input
GetLineStream(c) ==
  IF ~c.good THEN c
  ELSE IF LineEnd(c) <= Len(c.bytes)
       THEN [c EXCEPT !.at = LineEnd(c)]
       ELSE [c EXCEPT !.at = Len(c.bytes), !.good = FALSE]

\* getline(cin, input) and the test of while (input != ""): the next call of
\* sha256, whose H and vectors are fresh, or return 0.
Sha256GetLine ==
  /\ pc = "getline"
  /\ alg = "sha256"
  /\ Len(digests) < MaxDigests
  /\ msg' = GetLineInput(cin, msg)
  /\ cin' = GetLineStream(cin)
  /\ pc' = IF msg' = <<>> THEN "exit" ELSE "start"
  /\ h' = H256
  /\ padded' = <<>>
  /\ pos' = 0
  /\ zeros' = 0
  /\ w' = <<>>
  /\ UNCHANGED <<alg, buffer, totalBytes, bytesRead, calls, out, expected, progress,
                 digests>>

\* One iteration of the chunk loop of processing (src/Sha256.cpp).
Sha256Chunk ==
  /\ pc = "process"
  /\ alg = "sha256"
  /\ pos < Len(padded) \div 512
  /\ w' = sha256Words(padded, pos * 512)
  /\ h' = sha256Chunk(padded, pos * 512, h)
  /\ calls' = Append(calls, [phase |-> "chunk",
                             block |-> SubSeq(padded, pos * 512 + 1, pos * 512 + 512)])
  /\ pos' = pos + 1
  /\ UNCHANGED <<alg, msg, buffer, totalBytes, bytesRead, padded, zeros, out, pc,
                 expected, progress, cin, digests>>

\* After sha256 has returned: the prompt, and back to getline.
Sha256Prompt ==
  /\ pc = "done"
  /\ alg = "sha256"
  /\ pc' = "getline"
  /\ UNCHANGED <<alg, msg, pos, buffer, h, totalBytes, bytesRead, calls, padded,
                 zeros, w, out, expected, progress, cin, digests>>

\* One iteration of the chunk loop of md5 (src/Md5.cpp) or sha1
\* (src/Sha1.cpp).
ByteChunk ==
  /\ pc = "process"
  /\ alg \in ByteAlgs
  /\ pos * 64 < Len(padded)
  /\ h' = IF alg = "md5fn" THEN md5Chunk(padded, pos * 64, h)
          ELSE sha1Chunk(padded, pos * 64, h)
  /\ calls' = Append(calls, [phase |-> "chunk",
                             block |-> SubSeq(padded, pos * 64 + 1, pos * 64 + 64)])
  /\ pos' = pos + 1
  /\ UNCHANGED <<alg, msg, buffer, totalBytes, bytesRead, padded, zeros, w, out, pc,
                 expected, progress, cin, digests>>

\* The end of the chunk loop of md5 or sha1: the output loop; then
\* reportProgress(totalSize, totalSize) of main.
ByteEmit ==
  /\ pc = "process"
  /\ alg \in ByteAlgs
  /\ pos * 64 >= Len(padded)
  /\ out' = IF alg = "md5fn" THEN md5Print(h, 1) ELSE sha1Print(h, 1)
  /\ digests' = Append(digests, out')
  /\ progress' = reportProgress(progress, expected, expected)
  /\ pc' = "done"
  /\ UNCHANGED <<alg, msg, pos, buffer, h, totalBytes, bytesRead, calls, padded,
                 zeros, w, expected, cin>>

Md5Read == ReadBlock("md5")
Md5Tail == ReadTail("md5")
Md5Final == Finalize("md5")
Md5Output == Output("md5")
Sha1Read == ReadBlock("sha1")
Sha1Tail == ReadTail("sha1")
Sha1Final == Finalize("sha1")
Sha1Output == Output("sha1")

(***************************************************************************)
(* Spec: the two streaming drivers on every message of Msgs.               *)
(***************************************************************************)
Init == \E a \in {"md5", "sha1"} : \E m \in Msgs : StreamStart(a, m)

Next ==
  \/ Md5Read \/ Md5Tail \/ Md5Final \/ Md5Output
  \/ Sha1Read \/ Sha1Tail \/ Sha1Final \/ Sha1Output

Spec == Init /\ [][Next]_vars

\* The characters of a text as one string.
Cat(text) ==
  LET Body(i, s) == s \o text[i]
  IN  Loop(Body, 1, Len(text), "")

Done == pc = "done"

\* The blocks the finalization handed to transform, in order.
FinalCalls == SelectSeq(calls, LAMBDA c : c.phase = "final")
LoopCalls == SelectSeq(calls, LAMBDA c : c.phase = "loop")

\* C1: for every message, the streaming MD5 driver prints the digest that the
\* one-shot md5 function prints for the same bytes.
C1_Md5StreamEqualsOneShot ==
  (Done /\ alg = "md5") => out = md5(msg)

\* C2: for every message, the streaming SHA-1 driver prints the digest that
\* the one-shot sha1 function prints for the same bytes.
C2_Sha1StreamEqualsOneShot ==
  (Done /\ alg = "sha1") => out = sha1(msg)

\* A SHA-1 run over more than one full block whose tail takes two padding
\* blocks has printed its digest.
C2_Witness ==
  /\ Done /\ alg = "sha1" /\ Len(LoopCalls) >= 1 /\ bytesRead >= 56
  /\ out = sha1(msg)

\* The first 56 bytes of the blocks the finalization has to submit for the
\* tail of msg: tail, 0x80, zeros (and room for the length field) when
\* r < 56; tail, 0x80, zeros to the end of the block and then 56 zeros when
\* 56 <= r <= 63.
TailOf(m) == SubSeq(m, Len(m) - (Len(m) % 64) + 1, Len(m))
ExpectedFinal(m) ==
  LET r == Len(m) % 64
      t == TailOf(m)
  IN  IF r < 56
      THEN <<t \o <<128>> \o Zeroed(55 - r)>>
      ELSE <<t \o <<128>> \o Zeroed(63 - r), Zeroed(56)>>

\* What a final block shows of its content outside the length field: all of
\* it when another block follows, bytes 0..55 when it is the last one.
Shown(blocks) ==
  Tup([i \in 1..Len(blocks) |->
         IF i < Len(blocks) THEN blocks[i].block ELSE SubSeq(blocks[i].block, 1, 56)])

\* C3: the finalization of both streaming drivers calls the compression
\* function exactly once when r < 56 (tail, 0x80, zeros, length field) and
\* exactly twice when 56 <= r <= 63 (tail, 0x80, zeros; then 56 zeros and the
\* length field), so that no padding block is compressed more than once.
C3_FinalCalls ==
  pc \in {"output", "done"} =>
    /\ Len(FinalCalls) = (IF bytesRead < 56 THEN 1 ELSE 2)
    /\ Shown(FinalCalls) = ExpectedFinal(msg)

MD5Empty == "d41d8cd98f00b204e9800998ecf8427e"

\* C7: for the empty message both the one-shot md5 function and the streaming
\* MD5 driver print d41d8cd98f00b204e9800998ecf8427e.
C7_Md5Empty ==
  (Done /\ alg = "md5" /\ msg = <<>>) =>
    /\ Cat(out) = MD5Empty
    /\ Cat(md5(msg)) = MD5Empty

\* The streaming MD5 driver has printed its digest of the empty message.
C7_Witness == Done /\ alg = "md5" /\ msg = <<>> /\ Len(out) = 32

Sha1AbcStated == "a9993e364706816aba3e25717850c26c9cd0d89"
Sha1AbcPrinted == "a9993e364706816aba3e25717850c26c9cd0d89d"

\* C8 as stated: for the message "abc" both the one-shot sha1 function and
\* the streaming SHA-1 driver print a9993e364706816aba3e25717850c26c9cd0d89.
C8_Sha1AbcStated ==
  (Done /\ alg = "sha1" /\ msg = Abc) =>
    /\ Cat(out) = Sha1AbcStated
    /\ Cat(sha1(msg)) = Sha1AbcStated

\* C8: for the message "abc" both the one-shot sha1 function and the
\* streaming SHA-1 driver print the 40 characters
\* a9993e364706816aba3e25717850c26c9cd0d89d.
C8_Sha1Abc ==
  (Done /\ alg = "sha1" /\ msg = Abc) =>
    /\ Cat(out) = Sha1AbcPrinted
    /\ Cat(sha1(msg)) = Sha1AbcPrinted

\* The streaming SHA-1 driver has printed its digest of "abc".
C8_Witness == Done /\ alg = "sha1" /\ msg = Abc /\ Len(out) = 40

(***************************************************************************)
(* SpecPad: the padding of the four one-shot programs on a message of      *)
(* every length up to PadMaxLen.                                           *)
(***************************************************************************)
InitPad ==
  \E a \in ByteAlgs \cup BitAlgs : \E n \in 0..PadMaxLen : OneShotStart(a, Pattern(n))

NextPad == PadStart \/ PadMarker \/ PadZero \/ PadLength

SpecPad == InitPad /\ [][NextPad]_vars

\* The sizes of a block and of the length field in bytes, and the padded
\* message as bytes: a vector<bool> holds the bits of each byte from the top
\* bit down.
BlockBytes(a) == IF a = "sha384" THEN 128 ELSE 64
LengthFieldBytes(a) == IF a = "sha384" THEN 16 ELSE 8
PaddedBytes(a, p) ==
  IF a \in ByteAlgs THEN p
  ELSE Tup([i \in 1..(Len(p) \div 8) |->
              16 * NibbleAt(p, 8 * (i - 1)) + NibbleAt(p, 8 * (i - 1) + 4)])

\* The bytes of v, most significant first, in a field of n bytes (v < 2^31).
RECURSIVE Digits256(_, _)
Digits256(v, n) == IF n = 0 THEN <<>> ELSE Append(Digits256(v \div 256, n - 1), v % 256)

\* The length field for a message of len bytes: the number of message bits,
\* least significant byte first for MD5, most significant first for the
\* others.
ExpectedLength(a, len) ==
  IF a = "md5fn" THEN Reverse(Digits256(8 * len, 8))
  ELSE Digits256(8 * len, LengthFieldBytes(a))

\* C4: in each one-shot program the padding loop terminates, the padded
\* message is M, the marker 0x80, zero bytes and the length field, its size
\* is the smallest multiple of BlockSize that is at least
\* L + 1 + LengthFieldBytes, and it has one block after the last full block
\* of M when L mod BlockSize < BlockSize - LengthFieldBytes, else two.
C4_Padding ==
  LET bs == BlockBytes(alg)
      field == LengthFieldBytes(alg)
      L == Len(msg)
      P == PaddedBytes(alg, padded)
      z == Len(P) - L - 1 - field
  IN  /\ pc = "zeros" => zeros < BlockSize(alg)
      /\ pc = "process" =>
           /\ Len(padded) = Len(P) * (BlockSize(alg) \div bs)
           /\ z >= 0
           /\ P = msg \o <<128>> \o Zeroed(z) \o ExpectedLength(alg, L)
           /\ Len(P) % bs = 0
           /\ Len(P) >= L + 1 + field
           /\ Len(P) - bs < L + 1 + field
           /\ (Len(P) - (L - (L % bs))) \div bs = (IF L % bs < bs - field THEN 1 ELSE 2)

\* A padding has ended with two blocks after the last full block of a
\* message longer than one block.
C4_Witness ==
  /\ pc = "process" /\ alg = "md5fn" /\ Len(msg) > 64 /\ Len(msg) % 64 >= 56
  /\ Len(padded) = 3 * 64 /\ zeros > 0

(***************************************************************************)
(* SpecLen: the streaming drivers late in a long input.  A run starts in   *)
(* the read loop with totalBytes blocks already counted; the hash state    *)
(* stands for the one those blocks left, of which the length field is      *)
(* independent.                                                            *)
(***************************************************************************)
Word64(text) == Tup([i \in 1..16 |-> CHOOSE d \in 0..15 : HexChar[d + 1] = text[i]])

Totals ==
  { Word64(<<"0","0","0","0","0","0","0","0","0","0","0","0","0","0","0","0">>),
    Word64(<<"0","0","0","0","0","0","0","0","1","f","f","f","f","f","c","0">>),
    Word64(<<"0","0","0","0","0","0","0","0","f","f","f","f","f","f","c","0">>),
    Word64(<<"0","0","0","0","0","1","2","3","4","5","6","7","8","9","c","0">>),
    Word64(<<"1","f","f","f","f","f","f","f","f","f","f","f","f","f","4","0">>),
    Word64(<<"1","f","f","f","f","f","f","f","f","f","f","f","f","f","c","0">>),
    Word64(<<"f","f","f","f","f","f","f","f","f","f","f","f","f","f","c","0">>) }

LenMsgs == {Pattern(n) : n \in {0, 1, 55, 56, 63, 64, 65, 127}}

StreamResume(a, total, m) ==
  /\ alg = a
  /\ msg = m
  /\ pos = 0
  /\ buffer = Tup([i \in 1..64 |-> Uninit])
  /\ h = InitialHash(a)
  /\ totalBytes = total
  /\ bytesRead = 0
  /\ calls = <<>>
  /\ padded = <<>>
  /\ zeros = 0
  /\ w = <<>>
  /\ out = <<>>
  /\ expected = Zero64
  /\ progress = <<>>
  /\ cin = NoStdin
  /\ digests = <<>>
  /\ pc = "loop"

InitLen == \E a \in {"md5", "sha1"} : \E t \in Totals : \E m \in LenMsgs : StreamResume(a, t, m)

SpecLen == InitLen /\ [][Next]_vars

\* Bytes 56..63 of the last block submitted, as a 64-bit word read least
\* significant byte first (MD5) or most significant byte first (SHA-1).
LastField == SubSeq(calls[Len(calls)].block, 57, 64)
FieldWord ==
  LET f == IF alg = "md5" THEN Reverse(LastField) ELSE LastField
  IN  Tup([i \in 1..16 |-> ByteDigits(f[(i + 1) \div 2])[2 - (i % 2)]])

\* totalBytes < 2^61
Below2To61 == totalBytes[1] < 2

\* C5: bytes 56..63 of the last block a streaming driver submits hold
\* 8 * totalBytes as a 64-bit field, little-endian for MD5 and big-endian for
\* SHA-1, exactly, whenever totalBytes < 2^61.
C5_LengthField ==
  (pc \in {"output", "done"} /\ Below2To61) =>
    /\ Shr(FieldWord, 3) = totalBytes
    /\ FieldWord[16] % 8 = 0

\* A run has ended whose bit count needs more than 32 bits, after a tail
\* that took two padding blocks.
C5_Witness ==
  /\ Done /\ Below2To61 /\ totalBytes[1] = 1 /\ bytesRead >= 56
  /\ Shr(FieldWord, 3) = totalBytes

(***************************************************************************)
(* SpecSha384: sha384 on the messages of up to Sha384MaxLen bytes and on   *)
(* some that need two chunks.                                              *)
(***************************************************************************)
Sha384Msgs == {Pattern(n) : n \in (0..Sha384MaxLen) \cup {111, 112, 128}}

InitSha384 == \E m \in Sha384Msgs : OneShotStart("sha384", m)

NextSha384 ==
  PadStart \/ PadMarker \/ PadZero \/ PadLength \/ Sha384Chunk \/ Sha384Emit

SpecSha384 == InitSha384 /\ [][NextSha384]_vars

\* The 64 bits at bit offset 64 * i of a block, as a word: the big-endian
\* value of its bytes 8i .. 8i + 7.
BlockWord(block, i) ==
  Tup([d \in 1..16 |-> NibbleAt(block, 64 * i + 4 * (d - 1))])

\* C6: for every chunk of sha384, each of w[0..15] is the full 64-bit
\* big-endian value of the 8 block bytes at offset 8i.
C6_Sha384Words ==
  (alg = "sha384" /\ calls # <<>>) =>
    \A i \in 0..15 : w[i + 1] = BlockWord(calls[Len(calls)].block, i)

Sha384EmptyStated ==
  "38b060a751ac96384cd9327eb1b1e36a21fdb71114be07434c0cc7bf63f6e1da274edebfe76f65fbd51ad2f14898b95b"

\* C9: for the empty message sha384 prints
\* 38b060a751ac96384cd9327eb1b1e36a21fdb71114be07434c0cc7bf63f6e1da274edebfe76f65fbd51ad2f14898b95b.
C9_Sha384Empty ==
  (Done /\ alg = "sha384" /\ msg = <<>>) => Cat(out) = Sha384EmptyStated

(***************************************************************************)
(* SpecFmt: the output code of the four programs on final hash states that *)
(* include words with leading zero digits.                                 *)
(***************************************************************************)
\* Words of n digits: zero, all ones, a single low bit, a zero high digit
\* in every byte.
SampleWords(n) ==
  { WordOf(0, n), WordOf(1, n), Tup([i \in 1..n |-> 15]),
    Tup([i \in 1..n |-> IF i % 2 = 1 THEN 0 ELSE 10 + (i % 5)]) }

\* Hash states of k words in which all words but one are equal.
SampleStates(k, n) ==
  { Tup([i \in 1..k |-> IF i = j THEN x ELSE y]) :
      j \in 1..k, x \in SampleWords(n), y \in SampleWords(n) }

FinalStates(a) ==
  CASE a = "md5" -> SampleStates(4, 8)
    [] a = "sha1" -> SampleStates(5, 8)
    [] a = "sha256" -> SampleStates(8, 8)
    [] a = "sha384" -> SampleStates(8, 16)

\* binMessage of the empty message after preProcessing.
EmptyPadded(a) == <<1>> \o Zeroed(BlockSize(a) - 1)

\* A program that has processed all its input, the empty message, and is
\* about to print the hash state st.
FormatStart(a, st) ==
  /\ alg = a
  /\ msg = <<>>
  /\ pos = IF a \in BitAlgs THEN 1 ELSE 0
  /\ buffer = IF a \in BitAlgs THEN <<>> ELSE Tup([i \in 1..64 |-> Uninit])
  /\ h = st
  /\ totalBytes = Zero64
  /\ bytesRead = 0
  /\ calls = <<>>
  /\ padded = IF a \in BitAlgs THEN EmptyPadded(a) ELSE <<>>
  /\ zeros = IF a \in BitAlgs THEN BlockSize(a) - LengthField(a) - 1 ELSE 0
  /\ w = <<>>
  /\ out = <<>>
  /\ expected = Zero64
  /\ progress = IF a = "sha384" THEN <<<<Zero64, Zero64>>>> ELSE <<>>
  /\ cin = NoStdin
  /\ digests = <<>>
  /\ pc = IF a \in BitAlgs THEN "process" ELSE "output"

InitFmt ==
  \E a \in {"md5", "sha1", "sha256", "sha384"} : \E st \in FinalStates(a) : FormatStart(a, st)

NextFmt == Md5Output \/ Sha1Output \/ Sha256Emit \/ Sha384Emit

SpecFmt == InitFmt /\ [][NextFmt]_vars

DigestChars(a) ==
  CASE a = "md5" -> 32 [] a = "sha1" -> 40 [] a = "sha256" -> 64 [] a = "sha384" -> 96

LowerHex == {"0", "1", "2", "3", "4", "5", "6", "7", "8", "9", "a", "b", "c", "d", "e", "f"}

\* C10: for every final hash state the digest string is lowercase
\* hexadecimal without separators and has exactly 32, 40, 64 or 96 characters
\* for MD5, SHA-1, SHA-256 or SHA-384, leading zero digits included.
C10_DigestFormat ==
  Done =>
    /\ Len(out) = DigestChars(alg)
    /\ \A i \in 1..Len(out) : out[i] \in LowerHex

\* A digest has been printed of a hash state whose first word is zero.
C10_Witness ==
  /\ Done /\ alg \in {"md5", "sha1"} /\ h[1] = WordOf(0, 8)
  /\ Len(out) = DigestChars(alg)

(***************************************************************************)
(* The digest as a serialization of the hash state.                        *)
(***************************************************************************)
\* The words of the final state that are printed.
EmittedWords(a) ==
  CASE a = "md5" -> 4 [] a = "sha1" -> 5 [] a = "sha256" -> 8 [] a = "sha384" -> 6

\* Byte n (from 0) of the serialization of the state st: the words in order,
\* a word least significant byte first for MD5 and most significant byte
\* first otherwise.
SerialByte(a, st, n) ==
  LET bytesPerWord == Len(st[1]) \div 2
      word == st[(n \div bytesPerWord) + 1]
      r == n % bytesPerWord
      k == IF a = "md5" THEN bytesPerWord - 1 - r ELSE r
  IN  16 * word[(2 * k) + 1] + word[(2 * k) + 2]

NibbleChar(d) == IF d < 10 THEN ToString(d) ELSE <<"a", "b", "c", "d", "e", "f">>[d - 9]

\* C11: the printed digest is the final hash state words in order (the
\* first 6 of 8 for SHA-384), each word serialized least significant byte
\* first for MD5 and most significant byte first for SHA-1, SHA-256 and
\* SHA-384; the n-th pair of hex characters is byte n of that serialization,
\* high nibble first.
C11_DigestSerialization ==
  Done =>
    LET bytes == EmittedWords(alg) * (Len(h[1]) \div 2)
    IN  /\ Len(out) = 2 * bytes
        /\ \A n \in 0..(bytes - 1) :
             /\ out[(2 * n) + 1] = NibbleChar(SerialByte(alg, h, n) \div 16)
             /\ out[(2 * n) + 2] = NibbleChar(SerialByte(alg, h, n) % 16)

\* A SHA-384 digest has been printed of a state whose first word is 1 and
\* whose last word, which is not printed, differs from it.
C11_Witness ==
  /\ Done /\ alg = "sha384" /\ h[8] # h[1] /\ h[1] = WordOf(1, 16)
  /\ Len(out) = 96 /\ out[16] = "1" /\ out[1] = "0"

(***************************************************************************)
(* The byte counter of the streaming drivers.                              *)
(***************************************************************************)
\* x <= y on words of the same width.
RECURSIVE WordLeq(_, _)
WordLeq(x, y) ==
  \/ x = <<>>
  \/ Head(x) < Head(y)
  \/ Head(x) = Head(y) /\ WordLeq(Tail(x), Tail(y))

\* totalBytes during the read loop and from the end of the loop on.
TotalBytesCounts ==
  /\ pc = "loop" => totalBytes = WordOf(64 * Len(LoopCalls), 16)
  /\ pc \in {"pad", "output", "done"} =>
       /\ totalBytes = WordOf(Len(msg), 16)
       /\ Len(msg) = 64 * Len(LoopCalls) + bytesRead

\* C15: in the streaming MD5 and SHA-1 drivers totalBytes never decreases,
\* equals 64 times the number of full blocks compressed so far during the
\* read loop, and from the end of the loop on equals the number of input
\* bytes read (64 * full blocks + tail length), padding bytes not counted.
C15_TotalBytes ==
  /\ []TotalBytesCounts
  /\ [][WordLeq(totalBytes, totalBytes')]_vars

\* A run over two full blocks and a tail that takes two padding blocks has
\* finished.
C15_Witness ==
  /\ Done /\ Len(LoopCalls) = 2 /\ bytesRead = 2 /\ Len(FinalCalls) >= 1
  /\ totalBytes = WordOf(130, 16)

(***************************************************************************)
(* Blocks and indexes of the streaming drivers.                            *)
(***************************************************************************)
\* The indexes of the padding buffer that finalization writes: the marker
\* and the length bytes.
PaddingWrites == {bytesRead} \cup (56..63)

\* Bytes 56..63 of a block as the length field of the algorithm.
LengthBytes(block) ==
  LET field == SubSeq(block, 57, 64)
  IN  IF alg = "md5" THEN Reverse(field) ELSE field

\* C17: in the streaming MD5 and SHA-1 drivers the read loop passes only
\* whole 64-byte blocks of the input to transform; from the end of the loop
\* on 0 <= bytesRead <= 63; the marker index bytesRead and the length
\* indexes 56..63 lie inside the 128-byte padding buffer, where the blocks
\* show them written; and every block transform reads is 64 bytes of
\* written data of that buffer.
C17_BlocksAndIndexes ==
  /\ \A i \in 1..Len(calls) :
       /\ Len(calls[i].block) = 64
       /\ \A j \in 1..64 : calls[i].block[j] \in 0..255
  /\ \A i \in 1..Len(LoopCalls) :
       LoopCalls[i].block = SubSeq(msg, (64 * (i - 1)) + 1, 64 * i)
  /\ pc \in {"pad", "output", "done"} =>
       /\ bytesRead \in 0..63
       /\ \A i \in PaddingWrites : i < Len(TailBlock(buffer, bytesRead))
       /\ TailBlock(buffer, bytesRead)[bytesRead + 1] = 128
  /\ pc \in {"output", "done"} =>
       /\ FinalCalls[1].block[bytesRead + 1] = 128
       /\ \A j \in (bytesRead + 2)..56 : FinalCalls[1].block[j] = 0
       /\ LengthBytes(FinalCalls[Len(FinalCalls)].block)
            = WordBytes(Shl(WordOf(Len(msg), 16), 3))

\* A run with a full block and a 63-byte tail, whose marker is the last byte
\* of the first final block, has been finalized.
C17_Witness ==
  /\ pc = "output" /\ bytesRead = 63 /\ Len(LoopCalls) = 1
  /\ FinalCalls[1].block[64] = 128 /\ Len(FinalCalls) >= 2

(***************************************************************************)
(* SpecTransform: the two MD5 compression functions on sample states and   *)
(* blocks.                                                                 *)
(***************************************************************************)
\* 64-byte blocks: a pattern, all zero, all ones, a single byte set, and the
\* padded empty message.
SampleBlocks ==
  { Pattern(64), Zeroed(64), Tup([i \in 1..64 |-> 255]),
    Tup([i \in 1..64 |-> IF i = 37 THEN 1 ELSE 0]),
    Tup([i \in 1..64 |-> IF i = 1 THEN 128 ELSE 0]) }

\* A compression function about to run on the state st and the block b:
\* transform of the streaming driver (md5) or the chunk loop of md5 (md5fn).
TransformStart(a, st, b) ==
  /\ alg = a
  /\ msg = b
  /\ pos = 0
  /\ buffer = b
  /\ h = st
  /\ totalBytes = Zero64
  /\ bytesRead = 0
  /\ calls = <<>>
  /\ padded = <<>>
  /\ zeros = 0
  /\ w = <<>>
  /\ out = <<>>
  /\ expected = Zero64
  /\ progress = <<>>
  /\ cin = NoStdin
  /\ digests = <<>>
  /\ pc = "transform"

\* transform(buffer, a0, b0, c0, d0) of src/src/Md5.cpp.
Md5TransformCall ==
  /\ pc = "transform"
  /\ alg = "md5"
  /\ h' = md5Transform(buffer, 0, h)
  /\ calls' = Append(calls, [phase |-> "transform", block |-> buffer, before |-> h])
  /\ pc' = "transformed"
  /\ UNCHANGED <<alg, msg, pos, buffer, totalBytes, bytesRead, padded, zeros, w,
                 out, expected, progress, cin, digests>>

\* One iteration of the chunk loop of md5 of src/Md5.cpp.
Md5ChunkCall ==
  /\ pc = "transform"
  /\ alg = "md5fn"
  /\ h' = md5Chunk(buffer, 0, h)
  /\ calls' = Append(calls, [phase |-> "chunk", block |-> buffer, before |-> h])
  /\ pc' = "transformed"
  /\ UNCHANGED <<alg, msg, pos, buffer, totalBytes, bytesRead, padded, zeros, w,
                 out, expected, progress, cin, digests>>

InitTransform ==
  \E a \in {"md5", "md5fn"} :
    \E st \in SampleStates(4, 8) \cup {Md5Init} : \E b \in SampleBlocks :
      TransformStart(a, st, b)

NextTransform == Md5TransformCall \/ Md5ChunkCall

SpecTransform == InitTransform /\ [][NextTransform]_vars

\* The message word index of step j in the loop form.
LoopIndex(j) ==
  CASE j < 16 -> j
    [] j \in 16..31 -> (5 * j + 1) % 16
    [] j \in 32..47 -> (3 * j + 5) % 16
    [] j \in 48..63 -> (7 * j) % 16

\* The registers of step j: the loop form moves A, B, C, D one place on each
\* step, so that step j works on the names rotated by j mod 4.
LoopRegisters(j) ==
  CASE j % 4 = 0 -> <<"A", "B", "C", "D">>
    [] j % 4 = 1 -> <<"D", "A", "B", "C">>
    [] j % 4 = 2 -> <<"C", "D", "A", "B">>
    [] j % 4 = 3 -> <<"B", "C", "D", "A">>

\* Step j of the unrolled transform is step j of the loop form.
SameStep(j) ==
  LET st == Steps[j + 1]
  IN  /\ st[1] = (j \div 16) + 1
      /\ <<st[2], st[3], st[4], st[5]>> = LoopRegisters(j)
      /\ st[6] = LoopIndex(j)
      /\ st[7] = S[j + 1]
      /\ st[8] = j
      /\ K[st[8] + 1] = Kmd5[j + 1]

\* C18: the unrolled MD5 transform of the streaming driver performs the 64
\* steps of the loop-form compression of the one-shot md5: step j has the
\* same round function, message word index (j, (5j+1) mod 16, (3j+5) mod 16,
\* 7j mod 16), constant K[j], rotation S[j] and registers; within each
\* group of 16 steps every message word is used exactly once; and for every
\* input state and block both produce the same output state.
C18_UnrolledEqualsLoop ==
  /\ Len(Steps) = 64
  /\ \A j \in 0..63 : SameStep(j)
  /\ \A g \in 0..3 : {Steps[(16 * g) + i][6] : i \in 1..16} = 0..15
  /\ pc = "transformed" =>
       h = IF alg = "md5" THEN md5Chunk(calls[1].block, 0, calls[1].before)
           ELSE md5Transform(calls[1].block, 0, calls[1].before)

\* The unrolled transform has run on a state other than the initial one and
\* on a block that is not zero, and has changed the state.
C18_Witness ==
  /\ pc = "transformed" /\ alg = "md5" /\ calls[1].before # Md5Init
  /\ calls[1].block = Pattern(64) /\ h # calls[1].before

(***************************************************************************)
(* SpecDrivers: every driver from start to exit - the streaming drivers    *)
(* with and without the size argument, the one-shot mains, and the sha256  *)
(* driver on inputs of several lines.                                      *)
(***************************************************************************)
DriverMsgs == {Pattern(n) : n \in {0, 1, 55, 56, 63, 64, 65, 128, 130}}

\* The size arguments tried with the message m: none, unparsable, zero, the
\* length of m, and numbers below and above it.
Args(m) ==
  {NoArg, JunkArg, NumArg(0), NumArg(Len(m)), NumArg(Len(m) + 7)}
    \cup (IF Len(m) > 1 THEN {NumArg(Len(m) - 1)} ELSE {})

OneShotMsgs == {<<>>, Abc, Pattern(56)}

\* Inputs of the sha256 driver: nothing, an empty line, "abc" with and
\* without its newline, and two lines around an empty one.
Sha256Inputs ==
  { <<>>, <<10>>, Abc \o <<10>>, Abc, <<97, 10, 10, 98, 10>>, <<97, 10, 98>> }

InitDrivers ==
  \/ \E a \in {"md5", "sha1"} : \E m \in DriverMsgs : \E arg \in Args(m) :
       StreamStartArg(a, m, arg)
  \/ \E a \in Reporting : \E m \in OneShotMsgs : OneShotStart(a, m)
  \/ \E s \in Sha256Inputs : Sha256Start(s)

NextDrivers ==
  \/ Next
  \/ PadStart \/ PadMarker \/ PadZero \/ PadLength
  \/ ByteChunk \/ ByteEmit
  \/ Sha384Chunk \/ Sha384Emit
  \/ Sha256GetLine \/ Sha256Chunk \/ Sha256Emit \/ Sha256Prompt

SpecDrivers == InitDrivers /\ [][NextDrivers]_vars

\* The driver has returned from main.
Exited == IF alg = "sha256" THEN pc = "exit" ELSE pc = "done"

\* The digests of the zero-length message.
Sha1Empty == "da39a3ee5e6b4b0d3255bfef95601890afd80709"
Sha256Empty == "e3b0c44298fc1c149afbf4c8996fb92427ae41e4649b934ca495991b7852b855"
EmptyDigest(a) ==
  CASE a \in {"md5", "md5fn"} -> MD5Empty
    [] a \in {"sha1", "sha1fn"} -> Sha1Empty
    [] a = "sha256" -> Sha256Empty
    [] a = "sha384" -> Sha384EmptyStated

\* Nothing is on the driver's stdin.
EmptyInput == IF alg = "sha256" THEN cin.bytes = <<>> ELSE msg = <<>>

\* C16: a driver of MD5, SHA-1, SHA-256 or SHA-384 that has run on the
\* zero-length message and returned has emitted exactly one digest, the
\* full-width digest of the empty message.
C16_EmptyMessageDigest ==
  (Exited /\ EmptyInput) =>
    /\ Len(digests) = 1
    /\ Cat(digests[1]) = EmptyDigest(alg)

(***************************************************************************)
(* Progress reporting.                                                     *)
(***************************************************************************)
Streaming == {"md5", "sha1"}

\* The run reports progress: a streaming driver whose size argument is a
\* positive number, or a one-shot main that calls reportProgress.
ProgressActive ==
  IF alg \in Streaming THEN expected # Zero64 ELSE alg \in Reporting

\* reportProgress has been called with (current, total).
Reported(current, total) ==
  \E i \in 1..Len(progress) : progress[i] = <<current, total>>

\* C12: in a run with progress reporting active, where total is the
\* expected byte count, reportProgress(0, total) is called before any block
\* is compressed, and reportProgress(total, total) has been called when the
\* driver has consumed its whole input of total bytes and returned, for
\* every input length.
C12_ProgressStartAndCompletion ==
  ProgressActive =>
    /\ calls # <<>> => (progress # <<>> /\ progress[1] = <<Zero64, expected>>)
    /\ (Exited /\ expected = WordOf(Len(msg), 16)) => Reported(expected, expected)

\* The blocks a streaming driver compresses for the input m, as the bytes of
\* m alone determine them: the full blocks of m, then the final blocks of
\* its tail and length.
LoopBlocks(m) ==
  Tup([i \in 1..(Len(m) \div 64) |-> SubSeq(m, (64 * (i - 1)) + 1, 64 * i)])
BlocksOf(a, m) ==
  LoopBlocks(m) \o FinalBlocks(a, TailOf(m), Len(m) % 64, WordOf(Len(m), 16))

\* The blocks compressed so far.
Compressed == Tup([i \in 1..Len(calls) |-> calls[i].block])

\* C13: progress reporting is purely observational: in the streaming MD5 and
\* SHA-1 drivers the sequence of blocks compressed, the hash state after
\* them and the digest emitted are what the input bytes alone determine,
\* for every value of the expected-size argument (absent, zero, unparsable,
\* smaller or larger than the real length) and however often reportProgress
\* has been called.
C13_ProgressObservational ==
  alg \in Streaming =>
    /\ Len(calls) <= Len(BlocksOf(alg, msg))
    /\ Compressed = SubSeq(BlocksOf(alg, msg), 1, Len(calls))
    /\ pc \in {"output", "done"} => Compressed = BlocksOf(alg, msg)
    /\ h = CompressAll(alg, Compressed, InitialHash(alg))
    /\ Done =>
         LET final == CompressAll(alg, BlocksOf(alg, msg), InitialHash(alg))
         IN  /\ out = (IF alg = "md5" THEN md5Print(final, 1) ELSE sha1Print(final, 1))
             /\ digests = <<out>>

\* A run over two full blocks and a tail has finished that was given a size
\* larger than the input and has reported progress three times.
C13_Witness ==
  /\ Done /\ alg \in Streaming /\ Len(msg) = 130
  /\ expected = WordOf(137, 16) /\ Len(progress) = 3 /\ Len(calls) = 3

====
